---- MODULE Spec2Model ----
(***************************************************************************)
(* Model of gomplate's datasource engine (package data): the reference     *)
(* resolver (resolveURL), the root/path splitter (splitFSMuxURL), the      *)
(* media-type resolver (Source.mimeType), the reader registry, the         *)
(* aws+smp reader and the source cache (Data.readSource).                  *)
(*                                                                         *)
(* Go strings are modelled as sequences of tokens.  A token is either one  *)
(* of the delimiters below or a "name": a maximal run of characters that   *)
(* holds no delimiter.  Two Go strings are equal exactly when their token  *)
(* sequences are equal, provided adjacent names are merged on              *)
(* concatenation (Cat).                                                    *)
(*                                                                         *)
(* In the operations of Data, an intermediate value that the Go code      *)
(* names and reads several times is the parameter of a helper operator,    *)
(* so that every expression is written once.                               *)
(***************************************************************************)
EXTENDS Integers, Sequences, FiniteSets, TLC

\* ------------------------------------------------------------------ strings

Delims == {"/", "?", "&", "=", ":", "+", " ", ".", ";", "|", "\n",
           "%2F", "%2B", "%3B", "%3A", "%3F", "%3D", "%26", "%7C"}

IsName(t) == t \notin Delims

Last(s) == s[Len(s)]

Front(s) == SubSeq(s, 1, Len(s) - 1)

\* Go's string concatenation a + b
Cat(a, b) ==
    IF a = <<>> THEN b
    ELSE IF b = <<>> THEN a
    ELSE IF IsName(Last(a)) /\ IsName(Head(b))
         THEN Front(a) \o <<Last(a) \o Head(b)>> \o Tail(b)
         ELSE a \o b

HasPrefix(s, p) == Len(s) >= Len(p) /\ SubSeq(s, 1, Len(p)) = p

HasSuffix(s, p) == Len(s) >= Len(p) /\ SubSeq(s, Len(s) - Len(p) + 1, Len(s)) = p

TrimPrefix(s, p) == IF HasPrefix(s, p) THEN SubSeq(s, Len(p) + 1, Len(s)) ELSE s

Contains(s, t) == \E i \in 1..Len(s) : s[i] = t

\* index of the first / last occurrence of token t in s, 0 when absent
Index(s, t) ==
    IF Contains(s, t)
    THEN CHOOSE i \in 1..Len(s) : s[i] = t /\ \A j \in 1..(i - 1) : s[j] # t
    ELSE 0

LastIndex(s, t) ==
    IF Contains(s, t)
    THEN CHOOSE i \in 1..Len(s) : s[i] = t /\ \A j \in (i + 1)..Len(s) : s[j] # t
    ELSE 0

\* strings.Split(s, sep): the pieces between the occurrences of token sep
RECURSIVE Split(_, _)
Split(s, sep) ==
    LET i == Index(s, sep)
    IN  IF i = 0 THEN <<s>>
        ELSE <<SubSeq(s, 1, i - 1)>> \o Split(SubSeq(s, i + 1, Len(s)), sep)

\* strings.Join(parts, sep)
RECURSIVE Join(_, _)
Join(parts, sep) ==
    IF parts = <<>> THEN <<>>
    ELSE IF Len(parts) = 1 THEN parts[1]
    ELSE parts[1] \o <<sep>> \o Join(Tail(parts), sep)

\* strings.ReplaceAll(s, from, to) for single tokens
ReplaceAll(s, from, to) == [i \in 1..Len(s) |-> IF s[i] = from THEN to ELSE s[i]]

\* strings.Cut(s, sep): [before, after, found]
Cut(s, sep) ==
    LET i == Index(s, sep)
    IN  IF i = 0 THEN [before |-> s, after |-> <<>>, found |-> FALSE]
        ELSE [before |-> SubSeq(s, 1, i - 1), after |-> SubSeq(s, i + 1, Len(s)),
              found |-> TRUE]

\* ------------------------------------------------------------------ net/url

\* *url.URL: the fields the package reads.  Fragment and userinfo are not
\* used by any input of the model.
URL(scheme, opaque, host, path, rawQuery) ==
    [Scheme |-> scheme, Opaque |-> opaque, Host |-> host, Path |-> path, RawQuery |-> rawQuery]

NoURL == URL(<<>>, <<>>, <<>>, <<>>, <<>>)

Parsed(u) == [ok |-> TRUE, u |-> u]

ParseError == [ok |-> FALSE, u |-> NoURL]

SchemeTokens(s) == \A i \in 1..Len(s) : IsName(s[i]) \/ s[i] \in {"+", "."}

\* net/url getScheme: [ok, scheme, rest]
GetScheme(s) ==
    LET c == Index(s, ":")
    IN  IF c = 0 THEN [ok |-> TRUE, scheme |-> <<>>, rest |-> s]
        ELSE IF c = 1 THEN [ok |-> FALSE, scheme |-> <<>>, rest |-> s]
        ELSE IF SchemeTokens(SubSeq(s, 1, c - 1)) /\ IsName(s[1])
             THEN [ok |-> TRUE, scheme |-> SubSeq(s, 1, c - 1),
                   rest |-> SubSeq(s, c + 1, Len(s))]
             ELSE [ok |-> TRUE, scheme |-> <<>>, rest |-> s]

\* url.Parse after "//": the authority up to the next "/", the path from it
ParseAuthority(scheme, auth, rawQuery) ==
    Parsed(URL(scheme, <<>>, auth.before,
               IF auth.found THEN <<"/">> \o auth.after ELSE <<>>, rawQuery))

\* url.Parse after the scheme and the query are cut off
ParseHier(scheme, rest, rawQuery) ==
    IF ~HasPrefix(rest, <<"/">>)
    THEN IF scheme # <<>> THEN Parsed(URL(scheme, rest, <<>>, <<>>, rawQuery))
         ELSE IF Contains(Cut(rest, "/").before, ":") THEN ParseError
         ELSE Parsed(URL(<<>>, <<>>, <<>>, rest, rawQuery))
    ELSE IF (scheme # <<>> \/ ~HasPrefix(rest, <<"/", "/", "/">>)) /\ HasPrefix(rest, <<"/", "/">>)
    THEN ParseAuthority(scheme, Cut(SubSeq(rest, 3, Len(rest)), "/"), rawQuery)
    ELSE Parsed(URL(scheme, <<>>, <<>>, rest, rawQuery))

ParseQueryPart(scheme, q) == ParseHier(scheme, q.before, q.after)

ParseScheme(sc) == IF ~sc.ok THEN ParseError ELSE ParseQueryPart(sc.scheme, Cut(sc.rest, "?"))

\* url.Parse(rawURL): [ok, u]
UrlParse(s) == IF Contains(s, "\n") THEN ParseError ELSE ParseScheme(GetScheme(s))

\* (*URL).IsAbs
IsAbs(u) == u.Scheme # <<>>

\* url.QueryUnescape / url.QueryEscape on the delimiters of the model
UnescapeTok(t) ==
    CASE t = "+"   -> " "
      [] t = "%2F" -> "/"
      [] t = "%2B" -> "+"
      [] t = "%3B" -> ";"
      [] t = "%3A" -> ":"
      [] t = "%3F" -> "?"
      [] t = "%3D" -> "="
      [] t = "%26" -> "&"
      [] t = "%7C" -> "|"
      [] OTHER     -> t

EscapeTok(t) ==
    CASE t = " " -> "+"
      [] t = "/" -> "%2F"
      [] t = "+" -> "%2B"
      [] t = ";" -> "%3B"
      [] t = ":" -> "%3A"
      [] t = "?" -> "%3F"
      [] t = "=" -> "%3D"
      [] t = "&" -> "%26"
      [] t = "|" -> "%7C"
      [] OTHER   -> t

QueryUnescape(s) == [i \in 1..Len(s) |-> UnescapeTok(s[i])]

QueryEscape(s) == [i \in 1..Len(s) |-> EscapeTok(s[i])]

\* url.Values is map[string][]string: a function from the keys present to
\* the non-empty sequence of their values, in order of appearance.
NoValues == [x \in {} |-> <<>>]

\* Values.Add(key, value)
Add(vals, k, v) ==
    IF k \in DOMAIN vals THEN [vals EXCEPT ![k] = Append(@, v)]
    ELSE [x \in DOMAIN vals \cup {k} |-> IF x = k THEN <<v>> ELSE vals[x]]

\* one "key=value" of a raw query; an empty one, or one with ";", is skipped
AddPair(vals, pair) ==
    LET kv == Cut(pair, "=")
    IN  IF pair = <<>> \/ Contains(pair, ";") THEN vals
        ELSE Add(vals, QueryUnescape(kv.before), QueryUnescape(kv.after))

RECURSIVE AddPairs(_, _)
AddPairs(vals, pairs) ==
    IF pairs = <<>> THEN vals ELSE AddPairs(AddPair(vals, Head(pairs)), Tail(pairs))

\* url.ParseQuery(rawQuery), errors ignored as (*URL).Query does
ParseQuery(raw) == AddPairs(NoValues, Split(raw, "&"))

\* (*URL).Query
Query(u) == ParseQuery(u.RawQuery)

\* Values.Get(key): the first value, "" when the key is absent
Get(vals, k) == IF k \in DOMAIN vals THEN vals[k][1] ELSE <<>>

\* sort.Strings order of the query keys the inputs are written from
KeyOrder == << <<"a">>, <<"b">>, <<"m">>, <<"n">>, <<"q">>, <<"type">>, <<"x">>, <<"z">> >>

RECURSIVE EncodeKey(_, _)
EncodeKey(k, vs) ==
    IF vs = <<>> THEN <<>>
    ELSE << QueryEscape(k) \o <<"=">> \o QueryEscape(Head(vs)) >> \o EncodeKey(k, Tail(vs))

RECURSIVE EncodeFrom(_, _)
EncodeFrom(vals, keys) ==
    IF keys = <<>> THEN <<>>
    ELSE (IF Head(keys) \in DOMAIN vals THEN EncodeKey(Head(keys), vals[Head(keys)]) ELSE <<>>)
         \o EncodeFrom(vals, Tail(keys))

\* Values.Encode: "key=value" pairs sorted by key, joined by "&"
Encode(vals) == Join(EncodeFrom(vals, KeyOrder), "&")

TypeKey == <<"type">>

\* u.Query().Get("type")
TypeParam(u) == Get(Query(u), TypeKey)

\* ------------------------------------------------------------------ paths

Dot == <<".">>

DotDot == <<".", ".">>

\* net/url resolvePath: drop "." elements, let ".." remove the element before it
RECURSIVE RemoveDots(_, _)
RemoveDots(src, dst) ==
    IF src = <<>> THEN dst
    ELSE IF Head(src) = Dot THEN RemoveDots(Tail(src), dst)
    ELSE IF Head(src) = DotDot
         THEN RemoveDots(Tail(src), IF dst = <<>> THEN dst ELSE Front(dst))
         ELSE RemoveDots(Tail(src), Append(dst, Head(src)))

\* net/url resolvePath(base, ref); a final "." or ".." leaves a trailing slash
resolvePath(base, ref) ==
    LET full == IF ref = <<>> THEN base
                ELSE IF Head(ref) # "/" THEN Cat(SubSeq(base, 1, LastIndex(base, "/")), ref)
                ELSE ref
        src  == Split(full, "/")
        dst  == RemoveDots(src, <<>>)
                    \o (IF Last(src) = Dot \/ Last(src) = DotDot THEN << <<>> >> ELSE <<>>)
    IN  IF full = <<>> THEN <<>>
        ELSE <<"/">> \o TrimPrefix(Join(dst, "/"), <<"/">>)

RefScheme(u, ref) == IF ref.Scheme = <<>> THEN u.Scheme ELSE ref.Scheme

\* (*URL).ResolveReference(ref)
ResolveReference(u, ref) ==
    IF ref.Scheme # <<>> \/ ref.Host # <<>>
    THEN URL(RefScheme(u, ref), ref.Opaque, ref.Host, resolvePath(ref.Path, <<>>), ref.RawQuery)
    ELSE IF ref.Path = <<>> /\ u.Opaque # <<>>
    THEN URL(RefScheme(u, ref), u.Opaque, <<>>, <<>>,
             IF ref.RawQuery = <<>> THEN u.RawQuery ELSE ref.RawQuery)
    ELSE URL(RefScheme(u, ref), <<>>, u.Host, resolvePath(u.Path, ref.Path),
             IF ref.Path = <<>> /\ ref.RawQuery = <<>> THEN u.RawQuery ELSE ref.RawQuery)

\* path.Clean on the elements of a path: "." dropped, ".." removes the element
\* before it, or is dropped at the root, or kept at the front of a relative path
RECURSIVE CleanElems(_, _, _)
CleanElems(src, dst, rooted) ==
    IF src = <<>> THEN dst
    ELSE IF Head(src) = <<>> \/ Head(src) = Dot THEN CleanElems(Tail(src), dst, rooted)
    ELSE IF Head(src) = DotDot
         THEN IF dst # <<>> /\ Last(dst) # DotDot THEN CleanElems(Tail(src), Front(dst), rooted)
              ELSE IF rooted THEN CleanElems(Tail(src), dst, rooted)
              ELSE CleanElems(Tail(src), Append(dst, DotDot), rooted)
         ELSE CleanElems(Tail(src), Append(dst, Head(src)), rooted)

\* path.Clean(p)
Clean(p) ==
    LET rooted == HasPrefix(p, <<"/">>)
        body   == Join(CleanElems(Split(p, "/"), <<>>, rooted), "/")
    IN  IF rooted THEN <<"/">> \o body
        ELSE IF body = <<>> THEN Dot
        ELSE body

\* path.Join(a, b)
PathJoin(a, b) ==
    IF a = <<>> /\ b = <<>> THEN <<>>
    ELSE Clean(IF a = <<>> THEN b ELSE IF b = <<>> THEN a ELSE a \o <<"/">> \o b)

\* filepath.Ext(path): the suffix of the last element that starts at its last dot
Ext(p) == IF LastIndex(p, ".") > LastIndex(p, "/") THEN SubSeq(p, LastIndex(p, "."), Len(p)) ELSE <<>>

\* ------------------------------------------------------------------ media types

textMimetype == <<"text", "/", "plain">>

csvMimetype == <<"text", "/", "csv">>

jsonMimetype == <<"application", "/", "json">>

jsonArrayMimetype == <<"application", "/", "array", "+", "json">>

tomlMimetype == <<"application", "/", "toml">>

yamlMimetype == <<"application", "/", "yaml">>

envMimetype == <<"application", "/", "x-env">>

Utf8 == <<";", " ", "charset", "=", "utf-8">>

\* mime.TypeByExtension over the table that init() registers.  mime stores a
\* text/ type with its charset parameter.
TypeByExtension(ext) ==
    CASE ext = <<".", "json">> -> jsonMimetype
      [] ext = <<".", "yml">>  -> yamlMimetype
      [] ext = <<".", "yaml">> -> yamlMimetype
      [] ext = <<".", "csv">>  -> csvMimetype \o Utf8
      [] ext = <<".", "toml">> -> tomlMimetype
      [] ext = <<".", "env">>  -> envMimetype
      [] OTHER                 -> <<>>

IsSpace(t) == t \in {" ", "\n"}

RECURSIVE TrimLeft(_)
TrimLeft(s) == IF s # <<>> /\ IsSpace(Head(s)) THEN TrimLeft(Tail(s)) ELSE s

RECURSIVE TrimRight(_)
TrimRight(s) == IF s # <<>> /\ IsSpace(Last(s)) THEN TrimRight(Front(s)) ELSE s

TrimSpace(s) == TrimLeft(TrimRight(s))

\* the characters of an RFC 2045 token
IsTokenTok(t) == t \notin {"/", "?", "=", ":", " ", ";", "\n"}

\* mime consumeToken: the length of the longest prefix made of token characters
RECURSIVE TokenLen(_)
TokenLen(s) == IF s # <<>> /\ IsTokenTok(Head(s)) THEN 1 + TokenLen(Tail(s)) ELSE 0

IsToken(s) == s # <<>> /\ TokenLen(s) = Len(s)

\* mime checkMediaTypeDisposition: a token, then nothing or "/" and a token
\* that ends the string
CheckMediaType(s) ==
    LET n    == TokenLen(s)
        rest == SubSeq(s, n + 1, Len(s))
    IN  n > 0 /\ (rest = <<>> \/ (Head(rest) = "/" /\ IsToken(Tail(rest))))

\* the parameters after the media type: each "; name=value", a trailing ";" ignored
RECURSIVE ParamsOK(_)
ParamValueOK(c) == TokenLen(c) > 0 /\ ParamsOK(SubSeq(c, TokenLen(c) + 1, Len(c)))

ParamOK(a) ==
    LET n == TokenLen(a)
        b == TrimLeft(SubSeq(a, n + 1, Len(a)))
    IN  IF n = 0 THEN a = <<>>
        ELSE IF b = <<>> \/ Head(b) # "=" THEN FALSE
        ELSE ParamValueOK(TrimLeft(Tail(b)))

ParamsOK(v) ==
    LET w == TrimLeft(v)
    IN  IF w = <<>> THEN TRUE
        ELSE IF Head(w) # ";" THEN FALSE
        ELSE ParamOK(TrimLeft(Tail(w)))

MediaType(t) == [ok |-> TRUE, t |-> t]

MediaTypeError == [ok |-> FALSE, t |-> <<>>]

\* mime.ParseMediaType(v): [ok, t], t the type/subtype without its parameters
ParseMediaType(v) ==
    LET base == Cut(v, ";").before
        t    == TrimSpace(base)
    IN  IF CheckMediaType(t) /\ ParamsOK(SubSeq(v, Len(base) + 1, Len(v))) THEN MediaType(t)
        ELSE MediaTypeError

\* the argument as Source.mimeType parses it: "//x" loses a slash, "x" gains one
NormalizeArg(arg) ==
    LET a == IF HasPrefix(arg, <<"/", "/">>) THEN Tail(arg) ELSE arg
    IN  IF arg = <<>> THEN arg
        ELSE IF HasPrefix(a, <<"/">>) THEN a
        ELSE <<"/">> \o a

\* a if it is not the empty string, else b
OrElse(a, b) == IF a = <<>> THEN b ELSE a

\* a variant of Candidate that asks the base URL before the argument
CandidateBaseFirst(url, mediaType, argURL) ==
    OrElse(ReplaceAll(OrElse(TypeParam(url), OrElse(TypeParam(argURL), mediaType)), " ", "+"),
           OrElse(TypeByExtension(Ext(url.Path)), TypeByExtension(Ext(argURL.Path))))

\* the candidate Source.mimeType selects before it parses it: the type parameter
\* of the argument, of the base URL, the declared type, spaces replaced by "+",
\* then the extension of the argument path, of the base path
Candidate(url, mediaType, argURL) ==
    OrElse(ReplaceAll(OrElse(TypeParam(argURL), OrElse(TypeParam(url), mediaType)), " ", "+"),
           OrElse(TypeByExtension(Ext(argURL.Path)), TypeByExtension(Ext(url.Path))))

\* a variant of ParseCandidate that answers a malformed candidate with the default
ParseCandidateLenient(cand) ==
    IF cand # <<>> /\ ParseMediaType(cand).ok THEN ParseMediaType(cand)
    ELSE MediaType(textMimetype)

ParseCandidate(cand) == IF cand # <<>> THEN ParseMediaType(cand) ELSE MediaType(textMimetype)

mimeTypeOf(url, mediaType, parsed) ==
    IF ~parsed.ok THEN MediaTypeError ELSE ParseCandidate(Candidate(url, mediaType, parsed.u))

\* Source.mimeType(arg) on a Source with this URL and declared media type: [ok, t]
mimeType(url, mediaType, arg) == mimeTypeOf(url, mediaType, UrlParse(NormalizeArg(arg)))

\* a variant of guessMimeType that asks mimeGuess before the type parameters
guessMimeTypeGuessFirst(base, name, mimeGuess) ==
    LET rooted  == IF HasPrefix(name, <<"/", "/">>) THEN Tail(name) ELSE name
        n       == IF Len(name) > 0 /\ ~HasPrefix(rooted, <<"/">>) THEN <<"/">> \o rooted
                   ELSE rooted
        nameURL == UrlParse(n)
        given   == OrElse(mimeGuess, OrElse(Get(Query(nameURL.u), TypeKey), Get(Query(base), TypeKey)))
        byName  == OrElse(ReplaceAll(given, " ", "+"), TypeByExtension(Ext(nameURL.u.Path)))
        mediatype == OrElse(byName, TypeByExtension(Ext(base.Path)))
    IN  IF ~nameURL.ok THEN MediaTypeError
        ELSE IF mediatype # <<>> THEN ParseMediaType(mediatype)
        ELSE MediaType(textMimetype)

\* guessMimeType(base, name, mimeGuess): [ok, t]
guessMimeType(base, name, mimeGuess) ==
    LET rooted  == IF HasPrefix(name, <<"/", "/">>) THEN Tail(name) ELSE name
        n       == IF Len(name) > 0 /\ ~HasPrefix(rooted, <<"/">>) THEN <<"/">> \o rooted
                   ELSE rooted
        nameURL == UrlParse(n)
        given   == OrElse(Get(Query(nameURL.u), TypeKey), OrElse(Get(Query(base), TypeKey), mimeGuess))
        byName  == OrElse(ReplaceAll(given, " ", "+"), TypeByExtension(Ext(nameURL.u.Path)))
        mediatype == OrElse(byName, TypeByExtension(Ext(base.Path)))
    IN  IF ~nameURL.ok THEN MediaTypeError
        ELSE IF mediatype # <<>> THEN ParseMediaType(mediatype)
        ELSE MediaType(textMimetype)

\* ------------------------------------------------------------------ resolver

\* a variant of MergeQuery in which base's value wins
MergeQueryKeepBase(bq, rq) ==
    [k \in DOMAIN bq \cup DOMAIN rq |-> IF k \in DOMAIN bq THEN bq[k] ELSE <<Get(rq, k)>>]

\* a variant of MergeQuery in which rel's values for a key are joined with a space
MergeQueryJoined(bq, rq) ==
    [k \in DOMAIN bq \cup DOMAIN rq |-> IF k \in DOMAIN rq THEN <<Join(rq[k], " ")>> ELSE bq[k]]

\* the query merge of resolveURL: every key of rel is Set on base's values
\* to rel's first value for it
MergeQuery(bq, rq) ==
    [k \in DOMAIN bq \cup DOMAIN rq |-> IF k \in DOMAIN rq THEN <<Get(rq, k)>> ELSE bq[k]]

\* a base with a query replaces the resolved query by the merge
WithMergedQuery(base, rel, out) ==
    IF base.RawQuery # <<>>
    THEN [out EXCEPT !.RawQuery = Encode(MergeQuery(Query(base), Query(rel)))]
    ELSE out

resolveParsed(base, relURL) ==
    IF ~relURL.ok THEN ParseError
    ELSE Parsed(WithMergedQuery(base, relURL.u, ResolveReference(base, relURL.u)))

\* resolveURL(base, rel): [ok, u]
resolveURL(base, rel) == resolveParsed(base, UrlParse(rel))

\* a variant of splitFSMuxURL that works on the caller's URL, not on a copy
splitFSMuxURLInPlace(in) ==
    LET trimmed == TrimPrefix(in.Path, <<"/">>)
    IN  IF trimmed = <<>> /\ in.Opaque # <<>>
        THEN [u |-> [in EXCEPT !.Path = <<"/">>, !.Opaque = <<>>], base |-> in.Opaque,
              in |-> [in EXCEPT !.Path = <<"/">>, !.Opaque = <<>>]]
        ELSE [u |-> [in EXCEPT !.Path = <<"/">>],
              base |-> IF trimmed = <<>> THEN Dot ELSE trimmed,
              in |-> [in EXCEPT !.Path = <<"/">>]]

\* splitFSMuxURL(in): [u, base, in], in being the caller's URL after the call
\* (u := *in is a copy)
splitFSMuxURL(in) ==
    LET trimmed == TrimPrefix(in.Path, <<"/">>)
    IN  IF trimmed = <<>> /\ in.Opaque # <<>>
        THEN [u |-> [in EXCEPT !.Path = <<"/">>, !.Opaque = <<>>], base |-> in.Opaque, in |-> in]
        ELSE [u |-> [in EXCEPT !.Path = <<"/">>],
              base |-> IF trimmed = <<>> THEN Dot ELSE trimmed, in |-> in]

\* ------------------------------------------------------------------ aws+smp reader

\* the limit parseDatasourceURLArgs checks and reports: alias and extraPath
MaxReaderArgs == 2

NoErr == [kind |-> "none"]

Err(kind) == [kind |-> kind]

TooManyArgs(found) == [kind |-> "tooManyArgs", max |-> MaxReaderArgs, found |-> found]

NoParams == [x \in {} |-> <<>>]

ArgsError(err) == [ok |-> FALSE, err |-> err, params |-> NoParams, p |-> <<>>]

Args(params, p) == [ok |-> TRUE, err |-> NoErr, params |-> params, p |-> p]

\* params[key] = strings.Join(val, " ") for every key of a query
JoinedValues(vals) == [k \in DOMAIN vals |-> Join(vals[k], " ")]

\* map assignment for every key of over
Overlay(params, over) ==
    [k \in DOMAIN params \cup DOMAIN over |-> IF k \in DOMAIN over THEN over[k] ELSE params[k]]

\* p = sourceURL.Path, or sourceURL.Opaque when the path is empty
BasePath(u) == IF u.Path = <<>> /\ u.Opaque # <<>> THEN u.Opaque ELSE u.Path

\* a variant of JoinArgPath that leaves the joined path as path.Join cleans it
JoinArgPathCleaned(p, argPath) == IF argPath = <<>> THEN p ELSE PathJoin(p, argPath)

\* path.Join(p, parsed.Path), with the trailing slash of parsed.Path put back
JoinArgPath(p, argPath) ==
    IF argPath = <<>> THEN p
    ELSE PathJoin(p, argPath) \o (IF HasSuffix(argPath, <<"/">>) THEN <<"/">> ELSE <<>>)

parseOneArg(sourceURL, parsed) ==
    IF ~parsed.ok THEN ArgsError(Err("parse"))
    ELSE Args(Overlay(JoinedValues(Query(sourceURL)), JoinedValues(Query(parsed.u))),
              JoinArgPath(BasePath(sourceURL), parsed.u.Path))

\* a variant of parseDatasourceURLArgs that lets a second argument pass
parseDatasourceURLArgsLax(sourceURL, args) ==
    IF Len(args) > MaxReaderArgs THEN ArgsError(TooManyArgs(Len(args)))
    ELSE IF Len(args) = 0 THEN Args(JoinedValues(Query(sourceURL)), BasePath(sourceURL))
    ELSE parseOneArg(sourceURL, UrlParse(args[1]))

\* parseDatasourceURLArgs(sourceURL, args...): [ok, err, params, p]
parseDatasourceURLArgs(sourceURL, args) ==
    IF Len(args) >= MaxReaderArgs THEN ArgsError(TooManyArgs(Len(args)))
    ELSE IF Len(args) = 0 THEN Args(JoinedValues(Query(sourceURL)), BasePath(sourceURL))
    ELSE parseOneArg(sourceURL, UrlParse(args[1]))

\* what the backend behind a provider or a Reader answers on one read: the
\* steps that fail (open, stat, readDir, read of a provider, backend of a
\* Reader, and the parsers that fail on the bytes), whether the file is a
\* directory, the content type the provider reports for it, and the bytes
Env(fail, isDir, hint, data) == [fail |-> fail, isDir |-> isDir, hint |-> hint, data |-> data]

\* the lazily created SSM client of a Source: nil, or the client made for it
NilHandle == [made |-> FALSE, owner |-> <<>>]

NewHandle(alias) == [made |-> TRUE, owner |-> alias]

\* the request a Reader sent to its backend: none, a listing of the
\* parameters under path, or the one parameter at path
NoRequest == [sent |-> FALSE, list |-> FALSE, path |-> <<>>]

Request(list, path) == [sent |-> TRUE, list |-> list, path |-> path]

\* a Reader's result and the Source as the call leaves it
Fetched(src, ok, err, data, req) == [src |-> src, ok |-> ok, err |-> err, data |-> data, req |-> req]

\* listAWSSMPParams / readAWSSMPParam: the backend's answer
smpFetch(source, list, paramPath, env) ==
    IF "backend" \in env.fail
    THEN Fetched(source, FALSE, Err("backend"), "", Request(list, paramPath))
    ELSE Fetched(source, TRUE, NoErr, env.data, Request(list, paramPath))

\* a variant of smpTyped that fixes the JSON type for a listing too
smpTypedJSON(source, list, paramPath, env) ==
    smpFetch([source EXCEPT !.mediaType = jsonMimetype], list, paramPath, env)

\* the media type is fixed before the backend is asked
smpTyped(source, list, paramPath, env) ==
    smpFetch([source EXCEPT !.mediaType = IF list THEN jsonArrayMimetype ELSE jsonMimetype],
             list, paramPath, env)

smpParsed(source, pa, env) ==
    IF ~pa.ok THEN Fetched(source, FALSE, pa.err, "", NoRequest)
    ELSE smpTyped(source, HasSuffix(pa.p, <<"/">>), pa.p, env)

\* readAWSSMP(ctx, source, args...)
readAWSSMP(source, args, env) ==
    smpParsed([source EXCEPT !.asmpg = IF @ = NilHandle THEN NewHandle(source.Alias) ELSE @],
              parseDatasourceURLArgs(source.URL, args), env)

\* a Reader whose code is outside the package's core (consul, stdin): bytes or
\* an error, the Source left as it is
readOpaque(source, args, env) ==
    IF "backend" \in env.fail
    THEN Fetched(source, FALSE, Err("backend"), "", Request(FALSE, <<>>))
    ELSE Fetched(source, TRUE, NoErr, env.data, Request(FALSE, <<>>))

\* ------------------------------------------------------------------ Data

awssmpScheme == <<"aws", "+", "smp">>

\* the schemes registerReaders registers
RegisteredReaders ==
    {awssmpScheme, <<"consul">>, <<"consul", "+", "http">>, <<"consul", "+", "https">>,
     <<"merge">>, <<"stdin">>}

\* sourceReaders and FSMux are nil until first use
NilSet == [isNil |-> TRUE, schemes |-> {}]

SchemeSet(S) == [isNil |-> FALSE, schemes |-> S]

\* the schemes of the providers readSource adds to a new mux
DefaultMux ==
    {<<"file">>, <<"http">>, <<"https">>, <<"s3">>, <<"gs">>, <<"git">>, <<"vault">>,
     <<"aws", "+", "sm">>, <<"env">>}

\* registerReaders when sourceReaders is nil
registerReaders(readers) == IF readers.isNil THEN SchemeSet(RegisteredReaders) ELSE readers

\* a variant of lookupReader that finds a Reader for every scheme
lookupReaderAny(readers, scheme) == [ok |-> TRUE, readers |-> registerReaders(readers)]

\* lookupReader(scheme): [ok, readers], readers the registry after the call
lookupReader(readers, scheme) ==
    [ok |-> scheme \in registerReaders(readers).schemes, readers |-> registerReaders(readers)]

\* cacheKey := source.Alias; for _, v := range args { cacheKey += v }
RECURSIVE CacheKey(_, _)
CacheKey(alias, args) == IF args = <<>> THEN alias ELSE CacheKey(Cat(alias, Head(args)), Tail(args))

NoContent == [b |-> "", contentType |-> <<>>]

fileContent(b, contentType) == [b |-> b, contentType |-> contentType]

\* the provider a read opened, and whether its file turned out a directory
NoProvider == [opened |-> FALSE, dir |-> FALSE]

Opened(dir) == [opened |-> TRUE, dir |-> dir]

\* what one readSource call did: the Data fields and the Source as it leaves
\* them, its result, and what it invoked (prov: the provider it opened, rdr: a
\* Reader was called, req: the request the Reader sent to its backend)
ReadResult(cch, readers, mux, src, key, hit, ok, err, fc, prov, rdr, req) ==
    [cache |-> cch, sourceReaders |-> readers, FSMux |-> mux, src |-> src, key |-> key,
     hit |-> hit, ok |-> ok, err |-> err, fc |-> fc, prov |-> prov, rdr |-> rdr, req |-> req]

\* a variant of Store that drops every other entry
StoreAlone(cch, key, fc) == [k \in {key} |-> fc]

\* d.cache[cacheKey] = fc
Store(cch, key, fc) == [k \in DOMAIN cch \cup {key} |-> IF k = key THEN fc ELSE cch[k]]

\* fc := &fileContent{data, mimeType}; d.cache[cacheKey] = fc; return fc, nil
Stored(cch, readers, mux, src, key, fc, prov, rdr, req) ==
    ReadResult(Store(cch, key, fc), readers, mux, src, key, FALSE, TRUE, NoErr, fc, prov, rdr, req)

\* a variant of Failed that leaves an empty entry under the key
FailedStoring(cch, readers, mux, src, key, err, prov, rdr, req) ==
    ReadResult([k \in DOMAIN cch \cup {key} |-> IF k = key THEN NoContent ELSE cch[k]],
               readers, mux, src, key, FALSE, FALSE, err, NoContent, prov, rdr, req)

\* return nil, err
Failed(cch, readers, mux, src, key, err, prov, rdr, req) ==
    ReadResult(cch, readers, mux, src, key, FALSE, FALSE, err, NoContent, prov, rdr, req)

\* the first step of the provider branch that fails under env, "none" if none does
providerError(env) ==
    IF "open" \in env.fail THEN "open"
    ELSE IF "stat" \in env.fail THEN "stat"
    ELSE IF env.isDir /\ "readDir" \in env.fail THEN "readDir"
    ELSE IF ~env.isDir /\ "read" \in env.fail THEN "read"
    ELSE "none"

\* a variant of providerType that prefers what the provider reports
providerTypeHintLast(hint, env) ==
    IF env.isDir THEN jsonArrayMimetype ELSE IF env.hint = <<>> THEN hint ELSE env.hint

\* the content type of the provider branch: the hint, else what the provider
\* reports, and for a directory the array type whatever these are
providerType(hint, env) ==
    IF env.isDir THEN jsonArrayMimetype ELSE IF hint = <<>> THEN env.hint ELSE hint

providerDone(cch, readers, mux, source, key, hint, env, failed) ==
    IF failed # "none"
    THEN Failed(cch, readers, mux, source, key, Err(failed),
                Opened(env.isDir /\ failed = "readDir"), FALSE, NoRequest)
    ELSE Stored(cch, readers, mux, source, key, fileContent(env.data, providerType(hint, env)),
                Opened(env.isDir), FALSE, NoRequest)

\* the provider branch of readSource
readProvider(cch, readers, mux, source, key, hint, env) ==
    providerDone(cch, readers, mux, source, key, hint, env, providerError(env))

arg0(args) == IF Len(args) > 0 THEN args[1] ELSE <<>>

readerTyped(cch, readers, mux, key, r, mt) ==
    IF ~mt.ok THEN Failed(cch, readers, mux, r.src, key, Err("mimeType"), NoProvider, TRUE, r.req)
    ELSE Stored(cch, readers, mux, r.src, key, fileContent(r.data, mt.t), NoProvider, TRUE, r.req)

\* the content type of the Reader branch: the hint, else source.mimeType(subpath)
readerType(hint, src, args) ==
    IF hint = <<>> THEN mimeType(src.URL, src.mediaType, arg0(args)) ELSE MediaType(hint)

readerDone(cch, readers, mux, args, key, hint, r) ==
    IF ~r.ok THEN Failed(cch, readers, mux, r.src, key, r.err, NoProvider, TRUE, r.req)
    ELSE readerTyped(cch, readers, mux, key, r, readerType(hint, r.src, args))

\* r(ctx, source, args...) for the Reader registered for scheme
callReader(scheme, source, args, env) ==
    IF scheme = awssmpScheme THEN readAWSSMP(source, args, env) ELSE readOpaque(source, args, env)

readerLooked(cch, lr, mux, source, args, key, scheme, hint, env) ==
    IF ~lr.ok
    THEN Failed(cch, lr.readers, mux, source, key, [kind |-> "lookupReader", scheme |-> scheme],
                NoProvider, FALSE, NoRequest)
    ELSE readerDone(cch, lr.readers, mux, args, key, hint, callReader(scheme, source, args, env))

\* the Reader branch of readSource
readReader(cch, readers, mux, source, args, key, scheme, hint, env) ==
    readerLooked(cch, lookupReader(readers, scheme), mux, source, args, key, scheme, hint, env)

\* d.FSMux.Lookup finds a provider for the scheme, or the Reader registry is asked
readSplit(cch, readers, mux, source, args, key, scheme, hint, env) ==
    IF scheme \in mux.schemes
    THEN readProvider(cch, readers, mux, source, key, hint, env)
    ELSE readReader(cch, readers, mux, source, args, key, scheme, hint, env)

readResolved(cch, readers, mux, source, args, key, u, env) ==
    IF ~u.ok
    THEN Failed(cch, readers, mux, source, key, Err("resolve"), NoProvider, FALSE, NoRequest)
    ELSE readSplit(cch, readers, mux, source, args, key, splitFSMuxURL(u.u).u.Scheme,
                   TypeParam(u.u), env)

\* a nil FSMux is replaced by a mux of the default providers
initFSMux(mux) == IF mux.isNil THEN SchemeSet(DefaultMux) ELSE mux

\* readSource after the cache lookup missed
readMiss(cch, readers, mux, source, args, key, env) ==
    readResolved(cch, readers, initFSMux(mux), source, args, key,
                 resolveURL(source.URL, arg0(args)), env)

\* a variant of readKeyed without the cache lookup
readKeyedAlways(cch, readers, mux, source, args, key, env) ==
    readMiss(cch, readers, mux, source, args, key, env)

\* a variant of readKeyed that sets up the Reader registry when the key is found
readKeyedRegistering(cch, readers, mux, source, args, key, env) ==
    IF key \in DOMAIN cch
    THEN ReadResult(cch, registerReaders(readers), mux, source, key, TRUE, TRUE, NoErr, cch[key],
                    NoProvider, FALSE, NoRequest)
    ELSE readMiss(cch, readers, mux, source, args, key, env)

\* cached, ok := d.cache[cacheKey]; if ok { return cached, nil }
readKeyed(cch, readers, mux, source, args, key, env) ==
    IF key \in DOMAIN cch
    THEN ReadResult(cch, readers, mux, source, key, TRUE, TRUE, NoErr, cch[key],
                    NoProvider, FALSE, NoRequest)
    ELSE readMiss(cch, readers, mux, source, args, key, env)

\* Data.readSource(ctx, source, args...)
readSource(cch, readers, mux, source, args, env) ==
    readKeyed(cch, readers, mux, source, args, CacheKey(source.Alias, args), env)

\* a variant of mimeAlias whose alias of the YAML type is an alias itself
mimeAliasChained(m) ==
    IF m = <<"application", "/", "x-yaml">> THEN <<"application", "/", "text">>
    ELSE IF m = <<"application", "/", "text">> THEN textMimetype
    ELSE m

\* mimeAlias(m)
mimeAlias(m) ==
    IF m = <<"application", "/", "x-yaml">> THEN yamlMimetype
    ELSE IF m = <<"application", "/", "text">> THEN textMimetype
    ELSE m

\* what an operation returns: the string s as the last of the parsers in
\* decoders made a value of it (s itself when there is none), or no value;
\* decoders are the parsers called, in order, and err is the decoder's error
Value(decoders, s) == [ok |-> TRUE, decoders |-> decoders, s |-> s, err |-> NoErr]

Undecoded(decoders, err) == [ok |-> FALSE, decoders |-> decoders, s |-> "", err |-> err]

\* nil, the operation's error being the read's
NoValue == Undecoded(<<>>, NoErr)

\* out, err = p(s), for a parser p that fails on s when it is in fail
parseWith(p, s, fail) ==
    IF p \in fail THEN Undecoded(<<p>>, [kind |-> "parse", parser |-> p]) ELSE Value(<<p>>, s)

\* a variant of parseWithRetry that keeps the first parser's error
parseWithRetryFirstError(p, q, s, fail) ==
    IF p \notin fail THEN Value(<<p>>, s)
    ELSE IF q \notin fail THEN Value(<<p, q>>, s)
    ELSE Undecoded(<<p, q>>, [kind |-> "parse", parser |-> p])

\* out, err = p(s); if err != nil { out, err = q(s) }
parseWithRetry(p, q, s, fail) ==
    IF p \notin fail THEN Value(<<p>>, s)
    ELSE IF q \notin fail THEN Value(<<p, q>>, s)
    ELSE Undecoded(<<p, q>>, [kind |-> "parse", parser |-> q])

\* a variant of decode that takes a type it does not know for text
decodeLax(t, mtype, s, fail) ==
    CASE t = jsonMimetype      -> parseWithRetry("JSON", "JSONArray", s, fail)
      [] t = jsonArrayMimetype -> parseWith("JSONArray", s, fail)
      [] t = yamlMimetype      -> parseWithRetry("YAML", "YAMLArray", s, fail)
      [] t = csvMimetype       -> parseWith("CSV", s, fail)
      [] t = tomlMimetype      -> parseWith("TOML", s, fail)
      [] t = envMimetype       -> parseWith("dotEnv", s, fail)
      [] OTHER                 -> Value(<<>>, s)

\* the switch of parseData on the type t that mimeAlias made of mtype
decode(t, mtype, s, fail) ==
    CASE t = jsonMimetype      -> parseWithRetry("JSON", "JSONArray", s, fail)
      [] t = jsonArrayMimetype -> parseWith("JSONArray", s, fail)
      [] t = yamlMimetype      -> parseWithRetry("YAML", "YAMLArray", s, fail)
      [] t = csvMimetype       -> parseWith("CSV", s, fail)
      [] t = tomlMimetype      -> parseWith("TOML", s, fail)
      [] t = envMimetype       -> parseWith("dotEnv", s, fail)
      [] t = textMimetype      -> Value(<<>>, s)
      [] OTHER                 -> Undecoded(<<>>, [kind |-> "unsupported", type |-> mtype])

\* parseData(mimeType, s); fail: the parsers that fail on s
parseData(mtype, s, fail) == decode(mimeAlias(mtype), mtype, s, fail)

\* ------------------------------------------------------------------ state

VARIABLES
    Sources,        \* Data.Sources: alias -> Source
    nilSources,     \* Data.Sources is the nil map
    cache,          \* Data.cache: cache key -> fileContent
    sourceReaders,  \* Data.sourceReaders: nil, or the registered schemes
    FSMux,          \* Data.FSMux: nil, or the schemes its providers resolve
    last,           \* the last operation: its arguments, result and what it invoked
    hist,           \* per cache key read: entries stored, fetches made once stored, failures
    budget,         \* operations left in this run
    probe,          \* a function applied on its own: its inputs and its result
    tasks           \* concurrent tasks inside readSource: where each is and what it holds

vars == <<Sources, nilSources, cache, sourceReaders, FSMux, last, hist, budget, probe, tasks>>

\* bound on the tasks that call readSource concurrently
MaxTasks == 2

Tasks == 1..MaxTasks

\* a task that has not called readSource yet
IdleTask ==
    [pc |-> "idle", alias |-> <<>>, args |-> <<>>, key |-> <<>>, after |-> {}, hit |-> FALSE,
     fetched |-> FALSE, stored |-> FALSE, ok |-> FALSE, fc |-> NoContent]

\* a Source: Header and kv are read by no operation of the model
Source(alias, url, mediaType, asmpg) ==
    [Alias |-> alias, URL |-> url, mediaType |-> mediaType, asmpg |-> asmpg]

NoSources == [a \in {} |-> Source(<<>>, NoURL, <<>>, NilHandle)]

Put(srcs, alias, src) == [a \in DOMAIN srcs \cup {alias} |-> IF a = alias THEN src ELSE srcs[a]]

Found(srcs) == [ok |-> TRUE, panic |-> FALSE, Sources |-> srcs]

NotFound(srcs, panic) == [ok |-> FALSE, panic |-> panic, Sources |-> srcs]

\* lookupSource for an alias that is not defined: the alias is the reference;
\* writing the new Source to the nil map panics
lookupURL(srcs, isNil, alias, srcURL) ==
    IF ~srcURL.ok \/ ~IsAbs(srcURL.u) THEN NotFound(srcs, FALSE)
    ELSE IF isNil THEN NotFound(srcs, TRUE)
    ELSE Found(Put(srcs, alias, Source(alias, srcURL.u, <<>>, NilHandle)))

\* Data.lookupSource(alias): [ok, panic, Sources]
lookupSource(srcs, isNil, alias) ==
    IF alias \in DOMAIN srcs
    THEN Found([srcs EXCEPT ![alias].Alias = IF @ = <<>> THEN alias ELSE @])
    ELSE lookupURL(srcs, isNil, alias, UrlParse(alias))

\* what an operation did: the Data fields as it leaves them and the result of
\* its readSource call if it made one
Outcome(srcs, cch, readers, mux, read, key, hit, ok, err, fc, prov, rdr, req, panic) ==
    [Sources |-> srcs, cache |-> cch, sourceReaders |-> readers, FSMux |-> mux, read |-> read,
     key |-> key, hit |-> hit, ok |-> ok, err |-> err, fc |-> fc, prov |-> prov, rdr |-> rdr,
     req |-> req, panic |-> panic]

\* no readSource call was made
NoRead(srcs, err, panic) ==
    Outcome(srcs, cache, sourceReaders, FSMux, FALSE, <<>>, FALSE, FALSE, err, NoContent,
            NoProvider, FALSE, NoRequest, panic)

\* the result r of readSource on Sources[alias], which the call works on in place
ReadDone(srcs, alias, r) ==
    Outcome([srcs EXCEPT ![alias] = r.src], r.cache, r.sourceReaders, r.FSMux, TRUE, r.key,
            r.hit, r.ok, r.err, r.fc, r.prov, r.rdr, r.req, FALSE)

ReadOf(srcs, alias, args, env) ==
    ReadDone(srcs, alias, readSource(cache, sourceReaders, FSMux, srcs[alias], args, env))

readLooked(ls, alias, args, env) ==
    IF ls.panic THEN NoRead(Sources, Err("panic"), TRUE)
    ELSE IF ~ls.ok THEN NoRead(Sources, Err("undefined"), FALSE)
    ELSE ReadOf(ls.Sources, alias, args, env)

\* Data.readDataSource(ctx, alias, args...)
readDataSource(alias, args, env) ==
    readLooked(lookupSource(Sources, nilSources, alias), alias, args, env)

Count(b) == IF b THEN 1 ELSE 0

Tally(h, key, stores, late, failed) ==
    [k \in DOMAIN h \cup {key} |->
        IF k # key THEN h[k]
        ELSE IF k \in DOMAIN h
        THEN [stores |-> h[k].stores + stores, late |-> h[k].late + late,
              failed |-> h[k].failed + failed]
        ELSE [stores |-> stores, late |-> late, failed |-> failed]]

\* the history of the key a read used: one more entry stored if the read
\* stored one, one more late fetch if it opened a provider or called a Reader
\* while the cache held the key, one more failure if it failed
Record(o) ==
    IF ~o.read THEN hist
    ELSE Tally(hist, o.key, Count(o.ok /\ ~o.hit),
               Count(o.key \in DOMAIN cache /\ (o.prov.opened \/ o.rdr)), Count(~o.ok))

\* the state an operation leaves
Commit(op, alias, args, o, ret) ==
    /\ Sources' = o.Sources
    /\ cache' = o.cache
    /\ sourceReaders' = o.sourceReaders
    /\ FSMux' = o.FSMux
    /\ hist' = Record(o)
    /\ last' = [op |-> op, alias |-> alias, args |-> args, read |-> o.read, key |-> o.key,
                hit |-> o.hit, ok |-> o.ok, err |-> o.err, fc |-> o.fc, prov |-> o.prov,
                rdr |-> o.rdr, req |-> o.req, panic |-> o.panic, ret |-> ret]
    /\ budget' = budget - 1
    /\ UNCHANGED <<probe, tasks>>

datasourceDone(alias, args, fail, o) ==
    Commit("Datasource", alias, args, o,
           IF o.ok THEN parseData(o.fc.contentType, o.fc.b, fail) ELSE NoValue)

\* Data.Datasource(alias, args...)
Datasource(alias, args, env) ==
    /\ budget > 0
    /\ datasourceDone(alias, args, env.fail, readDataSource(alias, args, env))
    /\ UNCHANGED nilSources

includeDone(alias, args, o) ==
    IF o.ok THEN Commit("Include", alias, args, o, Value(<<>>, o.fc.b))
    ELSE Commit("Include", alias, args, [o EXCEPT !.panic = TRUE], NoValue)

\* Data.Include(alias, args...): string(fc.b) is evaluated before err is looked
\* at, and fc is nil when the read failed
Include(alias, args, env) ==
    /\ budget > 0
    /\ includeDone(alias, args, readDataSource(alias, args, env))
    /\ UNCHANGED nilSources

reachableDone(alias, args, o) ==
    Commit("DatasourceReachable", alias, args, o, IF o.ok THEN Value(<<>>, "") ELSE NoValue)

\* a variant of DatasourceReachable that looks the alias up as the reads do
DatasourceReachableLooking(alias, args, env) ==
    /\ budget > 0
    /\ reachableDone(alias, args, readDataSource(alias, args, env))
    /\ UNCHANGED nilSources

\* Data.DatasourceReachable(alias, args...)
DatasourceReachable(alias, args, env) ==
    /\ budget > 0
    /\ reachableDone(alias, args,
                     IF alias \in DOMAIN Sources THEN ReadOf(Sources, alias, args, env)
                     ELSE NoRead(Sources, Err("undefined"), FALSE))
    /\ UNCHANGED nilSources

\* the error DefineDatasource returns
defineError(alias, srcURL) ==
    IF alias = <<>> THEN Err("noAlias")
    ELSE IF alias \in DOMAIN Sources \/ srcURL.ok THEN NoErr
    ELSE Err("parse")

defineDone(alias, srcURL, err, defined) ==
    /\ Commit("DefineDatasource", alias, <<>>,
              NoRead(IF defined THEN Put(Sources, alias, Source(alias, srcURL.u, <<>>, NilHandle))
                     ELSE Sources, err, FALSE),
              IF err = NoErr THEN Value(<<>>, "") ELSE NoValue)
    /\ nilSources' = (nilSources /\ ~defined)

\* a variant of DefineDatasource without the DatasourceExists check
DefineDatasourceReplacing(alias, srcURL) ==
    /\ budget > 0
    /\ defineDone(alias, srcURL, defineError(alias, srcURL), alias # <<>> /\ srcURL.ok)

\* Data.DefineDatasource(alias, value); srcURL is what config.ParseSourceURL
\* makes of value: [ok, u]
DefineDatasource(alias, srcURL) ==
    /\ budget > 0
    /\ defineDone(alias, srcURL, defineError(alias, srcURL),
                  alias # <<>> /\ alias \notin DOMAIN Sources /\ srcURL.ok)

\* Source.inherit(parent): the receiver takes over the parent's handle, made or not
inherit(s, parent) == [s EXCEPT !.asmpg = parent.asmpg]

\* s.inherit(parent) on two Sources of the Data
Inherit(alias, parent) ==
    /\ budget > 0
    /\ alias \in DOMAIN Sources /\ parent \in DOMAIN Sources /\ alias # parent
    /\ Commit("inherit", alias, <<>>,
              NoRead([Sources EXCEPT ![alias] = inherit(@, Sources[parent])], NoErr, FALSE),
              NoValue)
    /\ UNCHANGED nilSources

NoOp ==
    [op |-> "none", alias |-> <<>>, args |-> <<>>, read |-> FALSE, key |-> <<>>, hit |-> FALSE,
     ok |-> TRUE, err |-> NoErr, fc |-> NoContent, prov |-> NoProvider, rdr |-> FALSE,
     req |-> NoRequest, panic |-> FALSE, ret |-> NoValue]

\* ------------------------------------------------------------------ inputs

\* the *url.URL of a reference that parses
U(s) == UrlParse(s).u

Q(k, v) == <<"?", k, "=">> \o v

\* file:///tmp/f.json?type=application/yaml
fURL == U(<<"file", ":", "/", "/", "/", "tmp", "/", "f", ".", "json">> \o Q("type", yamlMimetype))

\* aws+smp:///p/
pURL == U(awssmpScheme \o <<":", "/", "/", "/", "p", "/">>)

\* consul://h/k.csv?type=a/b/c
cURL ==
    U(<<"consul", ":", "/", "/", "h", "/", "k", ".", "csv">> \o Q("type", <<"a", "/", "b", "/", "c">>))

\* bogus://h/k, an alias that is a reference itself: no provider and no Reader
\* has its scheme
xRef == <<"bogus", ":", "/", "/", "h", "/", "k">>

\* file:///tmp/g.csv
gRef == <<"file", ":", "/", "/", "/", "tmp", "/", "g", ".", "csv">>

Sources0 ==
    [a \in {<<"f">>, <<"p">>, <<"c">>} |->
        CASE a = <<"f">> -> Source(a, fURL, <<>>, NilHandle)
          [] a = <<"p">> -> Source(a, pURL, <<>>, NilHandle)
          [] a = <<"c">> -> Source(a, cURL, <<>>, NilHandle)]

Aliases == {<<"f">>, <<"p">>, <<"c">>, xRef, <<"nope">>}

\* ?type=application/json
typeJSON == Q("type", jsonMimetype)

\* no argument, ?type=application/json, ?type=, b, two and three arguments,
\* bc (the two arguments b and c written as one), and an argument no URL
\* parser accepts
ArgLists ==
    {<<>>, <<typeJSON>>, <<Q("type", <<>>)>>, <<<<"b">>>>, <<<<"b">>, <<"c">>>>,
     <<<<"b">>, <<"c">>, <<"d">>>>, <<<<"bc">>>>, <<<<"b", "\n">>>>}

Up(hint, data) == Env({}, FALSE, hint, data)

Down == Env({"open", "backend"}, FALSE, <<>>, "")

Envs ==
    {Up(tomlMimetype, "v1"), Up(<<>>, "v2"), Env({}, TRUE, <<>>, "ls"), Down,
     Env({"stat"}, FALSE, <<>>, ""), Env({"read"}, FALSE, <<>>, ""), Env({"readDir"}, TRUE, <<>>, "")}

DefURLs == {ParseError, Parsed(U(gRef))}

DefAliases == {<<>>, <<"f">>, <<"g">>}

\* ------------------------------------------------------------------ specification

\* bound on the operations of one run
MaxOps == 2

NoProbe == [fn |-> "none"]

InitData(ops) ==
    /\ probe = NoProbe
    /\ cache = [k \in {} |-> NoContent]
    /\ sourceReaders = NilSet
    /\ FSMux \in {NilSet, SchemeSet({<<"file">>})}
    /\ last = NoOp
    /\ hist = [k \in {} |-> [stores |-> 0, late |-> 0, failed |-> 0]]
    /\ budget = ops
    /\ tasks = [t \in Tasks |-> IdleTask]

Init ==
    /\ nilSources \in BOOLEAN
    /\ Sources = IF nilSources THEN NoSources ELSE Sources0
    /\ InitData(MaxOps)

Next ==
    \/ \E a \in Aliases, args \in ArgLists, e \in Envs : Datasource(a, args, e)
    \/ \E a \in Aliases, args \in ArgLists, e \in Envs : Include(a, args, e)
    \/ \E a \in Aliases, args \in ArgLists, e \in Envs : DatasourceReachable(a, args, e)
    \/ \E a \in DefAliases, u \in DefURLs : DefineDatasource(a, u)

Spec == Init /\ [][Next]_vars

\* longer runs over fewer inputs: the sources f and p and one defined later,
\* read with and without an argument, by a backend that answers v1, v2 or fails,
\* and one Source inheriting from another

\* bound on the operations of one of these runs
MaxCacheOps == 3

CacheAliases == {<<"f">>, <<"p">>, <<"g">>}

CacheArgLists == {<<>>, <<typeJSON>>}

CacheEnvs == {Up(tomlMimetype, "v1"), Up(<<>>, "v2"), Down}

InitCache ==
    /\ nilSources = FALSE
    /\ Sources = [a \in {<<"f">>, <<"p">>} |-> Sources0[a]]
    /\ InitData(MaxCacheOps)

NextCache ==
    \/ \E a \in CacheAliases, args \in CacheArgLists, e \in CacheEnvs : Datasource(a, args, e)
    \/ \E a \in CacheAliases, args \in CacheArgLists, e \in CacheEnvs : Include(a, args, e)
    \/ \E a \in CacheAliases, args \in CacheArgLists, e \in CacheEnvs :
          DatasourceReachable(a, args, e)
    \/ DefineDatasource(<<"g">>, Parsed(U(gRef)))
    \/ \E a \in CacheAliases, parent \in CacheAliases : Inherit(a, parent)

SpecCache == InitCache /\ [][NextCache]_vars

\* ------------------------------------------------------------------ concurrent reads

\* readSource called by several tasks on one Data, which has no lock: each
\* task looks its key up in d.cache, fetches if it was not there, and writes
\* its entry to d.cache. A map write takes time (TaskStore to TaskStored);
\* another task's access to the map during it is a data race, after which
\* the runtime may abort the program, or the access may go through.

TaskAliases == {<<"f">>, <<"p">>}

Aborted == \E t \in Tasks : tasks[t].pc = "aborted"

Writing(t) == \E u \in Tasks \ {t} : tasks[u].pc = "writing"

\* the task found the entry fc under its key and returns it
TaskHit(t, alias, args, fc) ==
    [tasks EXCEPT ![t] = [IdleTask EXCEPT !.pc = "done", !.alias = alias, !.args = args,
                                          !.key = CacheKey(alias, args),
                                          !.after = {u \in Tasks : tasks[u].pc = "done"},
                                          !.hit = TRUE, !.ok = TRUE, !.fc = fc]]

\* the task did not find its key and goes on to fetch
TaskMiss(t, alias, args) ==
    [tasks EXCEPT ![t] = [IdleTask EXCEPT !.pc = "fetch", !.alias = alias, !.args = args,
                                          !.key = CacheKey(alias, args),
                                          !.after = {u \in Tasks : tasks[u].pc = "done"}]]

TaskAbort(t) == [tasks EXCEPT ![t].pc = "aborted"]

\* a variant of TaskLookup that never finds the key
TaskLookupMissing(t, alias, args) ==
    /\ ~Aborted
    /\ tasks[t].pc = "idle"
    /\ tasks' = TaskMiss(t, alias, args)
    /\ UNCHANGED <<Sources, nilSources, cache, sourceReaders, FSMux, last, hist, budget, probe>>

\* cacheKey := ...; cached, ok := d.cache[cacheKey]; if ok { return cached, nil }
\* While another task writes the map the read races with the write: the
\* program is aborted, or the read sees the map without the entry being
\* written, or with it.
TaskLookup(t, alias, args) ==
    /\ ~Aborted
    /\ tasks[t].pc = "idle"
    /\ \/ tasks' = IF CacheKey(alias, args) \in DOMAIN cache
                   THEN TaskHit(t, alias, args, cache[CacheKey(alias, args)])
                   ELSE TaskMiss(t, alias, args)
       \/ Writing(t) /\ tasks' = TaskAbort(t)
       \/ \E u \in Tasks \ {t} :
             /\ tasks[u].pc = "writing" /\ tasks[u].key = CacheKey(alias, args)
             /\ tasks' = TaskHit(t, alias, args, tasks[u].fc)
    /\ UNCHANGED <<Sources, nilSources, cache, sourceReaders, FSMux, last, hist, budget, probe>>

\* what the task holds when the rest of readSource, up to the cache write, gave r
TaskFetched(t, r) ==
    [tasks EXCEPT ![t].pc = IF r.ok THEN "store" ELSE "done", ![t].fetched = TRUE,
                  ![t].ok = r.ok, ![t].fc = r.fc]

\* readSource from the miss up to the cache write: the provider is opened or
\* the Reader called, and the Source, FSMux and the registry are left as the
\* call leaves them
TaskFetch(t, env) ==
    /\ ~Aborted
    /\ tasks[t].pc = "fetch"
    /\ \E r \in {readMiss(cache, sourceReaders, FSMux, Sources[tasks[t].alias], tasks[t].args,
                          tasks[t].key, env)} :
          /\ tasks' = TaskFetched(t, r)
          /\ Sources' = [Sources EXCEPT ![tasks[t].alias] = r.src]
          /\ sourceReaders' = r.sourceReaders
          /\ FSMux' = r.FSMux
    /\ UNCHANGED <<nilSources, cache, last, hist, budget, probe>>

\* d.cache[cacheKey] = fc begins; two writes at once race with each other
TaskStore(t) ==
    /\ ~Aborted
    /\ tasks[t].pc = "store"
    /\ \/ tasks' = [tasks EXCEPT ![t].pc = "writing"]
       \/ Writing(t) /\ tasks' = TaskAbort(t)
    /\ UNCHANGED <<Sources, nilSources, cache, sourceReaders, FSMux, last, hist, budget, probe>>

\* d.cache[cacheKey] = fc is done; return fc, nil
TaskStored(t) ==
    /\ ~Aborted
    /\ tasks[t].pc = "writing"
    /\ cache' = Store(cache, tasks[t].key, tasks[t].fc)
    /\ tasks' = [tasks EXCEPT ![t].pc = "done", ![t].stored = TRUE]
    /\ UNCHANGED <<Sources, nilSources, sourceReaders, FSMux, last, hist, budget, probe>>

InitTasks ==
    /\ nilSources = FALSE
    /\ Sources = [a \in TaskAliases |-> Sources0[a]]
    /\ InitData(0)

NextTasks ==
    \/ \E t \in Tasks, a \in TaskAliases, args \in CacheArgLists : TaskLookup(t, a, args)
    \/ \E t \in Tasks, e \in CacheEnvs : TaskFetch(t, e)
    \/ \E t \in Tasks : TaskStore(t)
    \/ \E t \in Tasks : TaskStored(t)

SpecTasks == InitTasks /\ [][NextTasks]_vars

\* ------------------------------------------------------------------ Source.mimeType on its own

\* the values a type parameter or a declared type is given: none,
\* application/json, application/array+json, text/plain, and a/b/c, which is
\* no media type
NoType == <<>>

badType == <<"a", "/", "b", "/", "c">>

TypeValues == {NoType, jsonMimetype, jsonArrayMimetype, badType}

DeclaredValues == {NoType, tomlMimetype, textMimetype, badType}

\* the extensions a path is given: none, two registered ones, one that is not
ArgExtValues == {<<>>, <<".", "csv">>, <<".", "nosuch">>}

BaseExtValues == {<<>>, <<".", "yaml">>, <<".", "nosuch">>}

\* ?type=t, nothing when t is no value
TypeQuery(t) == IF t = NoType THEN <<>> ELSE Q("type", t)

\* the argument q<ext>?type=<type>, the empty string when both are absent
ArgOf(ext, type) == (IF ext = <<>> THEN <<>> ELSE <<"q">> \o ext) \o TypeQuery(type)

\* the base URL http://x/u<ext>?type=<type>
BaseOf(ext, type) == U(<<"http", ":", "/", "/", "x", "/", "u">> \o ext \o TypeQuery(type))

MimeProbe(argType, baseType, declared, argExt, baseExt) ==
    [fn |-> "mimeType", argType |-> argType, baseType |-> baseType, declared |-> declared,
     argExt |-> argExt, baseExt |-> baseExt, applied |-> FALSE, out |-> MediaTypeError]

InitPure ==
    /\ nilSources = FALSE
    /\ Sources = NoSources
    /\ cache = [k \in {} |-> NoContent]
    /\ sourceReaders = NilSet
    /\ FSMux = NilSet
    /\ last = NoOp
    /\ hist = [k \in {} |-> [stores |-> 0, late |-> 0, failed |-> 0]]
    /\ budget = 0
    /\ tasks = [t \in Tasks |-> IdleTask]

InitMime ==
    /\ InitPure
    /\ probe \in {MimeProbe(at, bt, d, ae, be) :
                    at \in TypeValues, bt \in TypeValues, d \in DeclaredValues,
                    ae \in ArgExtValues, be \in BaseExtValues}

\* s.mimeType(arg) on a Source with the probe's URL and declared type
MimeType ==
    /\ probe.fn = "mimeType"
    /\ ~probe.applied
    /\ probe' = [probe EXCEPT !.applied = TRUE,
                              !.out = mimeType(BaseOf(probe.baseExt, probe.baseType),
                                               probe.declared,
                                               ArgOf(probe.argExt, probe.argType))]
    /\ UNCHANGED <<Sources, nilSources, cache, sourceReaders, FSMux, last, hist, budget, tasks>>

SpecMime == InitMime /\ [][MimeType]_vars

\* ------------------------------------------------------------------ guessMimeType and Source.mimeType

\* the names given: none, q.csv, //q.csv, /q.nosuch, ?type=application/json,
\* ?type=application/array+json (its "+" read as a space), q.csv?type=a/b/c,
\* q.json?type=text/plain;charset=utf-8, and one no URL parser accepts
GuessNames ==
    {<<>>, <<"q", ".", "csv">>, <<"/", "/", "q", ".", "csv">>, <<"/", "q", ".", "nosuch">>,
     typeJSON, Q("type", jsonArrayMimetype), <<"q", ".", "csv">> \o Q("type", badType),
     <<"q", ".", "json">> \o Q("type", QueryEscape(textMimetype \o Utf8)), <<"b", "\n">>}

GuessBases ==
    {BaseOf(<<>>, NoType), BaseOf(<<".", "yaml">>, NoType), BaseOf(<<".", "yaml">>, jsonMimetype),
     BaseOf(<<".", "nosuch">>, badType)}

GuessProbe(base, name, declared) ==
    [fn |-> "guessMimeType", base |-> base, name |-> name, declared |-> declared,
     applied |-> FALSE, out |-> MediaTypeError, guess |-> MediaTypeError]

InitGuess ==
    /\ InitPure
    /\ probe \in {GuessProbe(b, n, d) : b \in GuessBases, n \in GuessNames, d \in DeclaredValues}

\* s.mimeType(name) on a Source with the probe's URL and declared type, and
\* guessMimeType(URL, name, declared type)
GuessMimeType ==
    /\ probe.fn = "guessMimeType"
    /\ ~probe.applied
    /\ probe' = [probe EXCEPT !.applied = TRUE,
                              !.out = mimeType(probe.base, probe.declared, probe.name),
                              !.guess = guessMimeType(probe.base, probe.name, probe.declared)]
    /\ UNCHANGED <<Sources, nilSources, cache, sourceReaders, FSMux, last, hist, budget, tasks>>

SpecGuess == InitGuess /\ [][GuessMimeType]_vars

\* ------------------------------------------------------------------ resolveURL on its own

\* a query as the pairs it is written from, in order
NoQuery == <<>>

Pair(k, v) == <<k, v>>

BaseQueries ==
    {NoQuery, <<Pair("n", "2")>>, <<Pair("n", "2"), Pair("m", "5")>>, <<Pair("q", "7"), Pair("n", "2")>>}

RelQueries ==
    {NoQuery, <<Pair("q", "1")>>, <<Pair("n", "3")>>, <<Pair("q", "1"), Pair("n", "3")>>,
     <<Pair("z", "9"), Pair("a", "0")>>}

RECURSIVE PairsText(_)
PairsText(pairs) ==
    IF pairs = <<>> THEN <<>>
    ELSE <<pairs[1][1], "=", pairs[1][2]>>
         \o (IF Len(pairs) = 1 THEN <<>> ELSE <<"&">> \o PairsText(Tail(pairs)))

\* ?k=v&k=v, nothing for no pairs
QueryText(pairs) == IF pairs = <<>> THEN <<>> ELSE <<"?">> \o PairsText(pairs)

\* /a/b/, /a/b and the empty path
BasePaths == {<<"/", "a", "/", "b", "/">>, <<"/", "a", "/", "b">>, <<>>}

\* nothing, bar.json, /r, ../s, http://y/t, s/ and .
RelRefs ==
    {<<>>, <<"bar", ".", "json">>, <<"/", "r">>, <<".", ".", "/", "s">>,
     <<"http", ":", "/", "/", "y", "/", "t">>, <<"s", "/">>, <<".">>}

ResolveProbe(basePath, baseQuery, relRef, relQuery) ==
    [fn |-> "resolveURL", basePath |-> basePath, baseQuery |-> baseQuery, relRef |-> relRef,
     relQuery |-> relQuery, applied |-> FALSE, out |-> ParseError, args |-> ArgsError(NoErr)]

InitResolve ==
    /\ InitPure
    /\ probe \in {ResolveProbe(bp, bq, rr, rq) :
                    bp \in BasePaths, bq \in BaseQueries, rr \in RelRefs, rq \in RelQueries}

\* the base http://x<path>?<query> and the specifier <ref>?<query> of a probe
ProbeBase(p) == U(<<"http", ":", "/", "/", "x">> \o p.basePath \o QueryText(p.baseQuery))

ProbeRel(p) == p.relRef \o QueryText(p.relQuery)

\* resolveURL(base, rel), and parseDatasourceURLArgs(base, rel) of a Reader
\* given the same base and specifier
ResolveURL ==
    /\ probe.fn = "resolveURL"
    /\ ~probe.applied
    /\ probe' = [probe EXCEPT !.applied = TRUE,
                              !.out = resolveURL(ProbeBase(probe), ProbeRel(probe)),
                              !.args = parseDatasourceURLArgs(ProbeBase(probe), <<ProbeRel(probe)>>)]
    /\ UNCHANGED <<Sources, nilSources, cache, sourceReaders, FSMux, last, hist, budget, tasks>>

SpecResolve == InitResolve /\ [][ResolveURL]_vars

\* ------------------------------------------------------------------ resolveURL, repeated keys

\* base queries in which a key repeats: n=2&n=4, q=7&n=2&n=4 and n=2&q=7&n=4
RepeatBaseQueries ==
    {NoQuery, <<Pair("n", "2")>>, <<Pair("n", "2"), Pair("n", "4")>>,
     <<Pair("q", "7"), Pair("n", "2"), Pair("n", "4")>>,
     <<Pair("n", "2"), Pair("q", "7"), Pair("n", "4")>>}

\* specifier queries in which a key repeats: n=3&n=6, q=1&q=5 and z=9&n=3&z=8
RepeatRelQueries ==
    {NoQuery, <<Pair("n", "3")>>, <<Pair("n", "3"), Pair("n", "6")>>,
     <<Pair("q", "1"), Pair("q", "5")>>, <<Pair("z", "9"), Pair("n", "3"), Pair("z", "8")>>}

RepeatRelRefs == {<<>>, <<"bar", ".", "json">>, <<"/", "r">>}

InitRepeat ==
    /\ InitPure
    /\ probe \in {ResolveProbe(bp, bq, rr, rq) :
                    bp \in BasePaths, bq \in RepeatBaseQueries, rr \in RepeatRelRefs,
                    rq \in RepeatRelQueries}

SpecRepeat == InitRepeat /\ [][ResolveURL]_vars

\* ------------------------------------------------------------------ parseData on its own

\* the content types parseData is given: the seven it knows, the two legacy
\* spellings, one it does not know, and none
ParseTypes ==
    {textMimetype, csvMimetype, jsonMimetype, jsonArrayMimetype, tomlMimetype, yamlMimetype,
     envMimetype, <<"application", "/", "x-yaml">>, <<"application", "/", "text">>,
     <<"image", "/", "png">>, <<>>}

\* the parsers that fail on the input: every choice among these
FailingParsers == SUBSET {"JSON", "JSONArray", "YAML", "YAMLArray", "CSV"}

ParseProbe(type, fail) ==
    [fn |-> "parseData", type |-> type, fail |-> fail, s |-> "in", applied |-> FALSE,
     alias |-> <<>>, again |-> <<>>, out |-> NoValue]

InitParse ==
    /\ InitPure
    /\ probe \in {ParseProbe(t, f) : t \in ParseTypes, f \in FailingParsers}

\* parseData(type, s), and mimeAlias(type) applied once and twice
ParseData ==
    /\ probe.fn = "parseData"
    /\ ~probe.applied
    /\ probe' = [probe EXCEPT !.applied = TRUE,
                              !.alias = mimeAlias(probe.type),
                              !.again = mimeAlias(mimeAlias(probe.type)),
                              !.out = parseData(probe.type, probe.s, probe.fail)]
    /\ UNCHANGED <<Sources, nilSources, cache, sourceReaders, FSMux, last, hist, budget, tasks>>

SpecParse == InitParse /\ [][ParseData]_vars

\* ------------------------------------------------------------------ splitFSMuxURL on its own

SplitSchemes == {<<"file">>, <<"http">>, <<"env">>, awssmpScheme}

\* a reference scheme:opaque, or scheme://host and a path
SplitOpaques == {<<>>, <<"FOO">>, <<"a", "/", "b">>}

SplitHosts == {<<>>, <<"h">>}

SplitPaths == {<<>>, <<"/">>, <<"/", "a">>, <<"/", "a", "/", "b", "/">>, <<"/", "/", "a">>}

SplitQueries == {NoQuery, <<Pair("type", "t")>>, <<Pair("n", "2"), Pair("m", "5")>>}

SplitProbe(scheme, hier, opaque, host, path, query) ==
    [fn |-> "splitFSMuxURL", scheme |-> scheme, hier |-> hier, opaque |-> opaque, host |-> host,
     path |-> path, query |-> query, applied |-> FALSE, out |-> splitFSMuxURL(NoURL)]

\* the reference of a probe as it is written
SplitRef(p) ==
    p.scheme \o <<":">> \o (IF p.hier THEN <<"/", "/">> \o p.host \o p.path ELSE p.opaque)
        \o QueryText(p.query)

InitSplit ==
    /\ InitPure
    /\ probe \in {SplitProbe(s, FALSE, o, <<>>, <<>>, q) :
                    s \in SplitSchemes, o \in SplitOpaques, q \in SplitQueries}
                 \cup {SplitProbe(s, TRUE, <<>>, h, p, q) :
                    s \in SplitSchemes, h \in SplitHosts, p \in SplitPaths, q \in SplitQueries}

\* splitFSMuxURL(in) for the URL the probe's reference parses to
SplitFSMuxURL ==
    /\ probe.fn = "splitFSMuxURL"
    /\ ~probe.applied
    /\ probe' = [probe EXCEPT !.applied = TRUE, !.out = splitFSMuxURL(U(SplitRef(probe)))]
    /\ UNCHANGED <<Sources, nilSources, cache, sourceReaders, FSMux, last, hist, budget, tasks>>

SpecSplit == InitSplit /\ [][SplitFSMuxURL]_vars

\* ------------------------------------------------------------------ properties

\* the content type of the entry the last read returned
lastType == last.fc.contentType

\* the last operation made a readSource call that ran the pipeline and succeeded
lastFetched == last.read /\ last.ok /\ ~last.hit

\* the last operation read an aws+smp source through its Reader
lastReadSMP ==
    /\ last.read
    /\ last.rdr
    /\ last.alias \in DOMAIN Sources
    /\ Sources[last.alias].URL.Scheme = awssmpScheme

\* the type parameter the last read was given: the argument's, else the base's
typeGiven ==
    OrElse(TypeParam(UrlParse(arg0(last.args)).u), TypeParam(Sources[last.alias].URL))

\* the type parameter of the reference the last read resolved
typeResolved == TypeParam(resolveURL(Sources[last.alias].URL, arg0(last.args)).u)

\* C1: once a read has stored an entry for a cache key, every later read with
\* that key returns the stored entry and opens no provider and calls no
\* Reader; so for every key at most one entry is ever stored and no fetch is
\* made after it.
C1_FetchedOncePerKey ==
    [][/\ (last'.read /\ last'.key \in DOMAIN cache) =>
            /\ last'.hit /\ last'.ok
            /\ last'.fc = cache[last'.key]
            /\ ~last'.prov.opened /\ ~last'.rdr /\ ~last'.req.sent
       /\ \A k \in DOMAIN hist' : hist'[k].stores <= 1 /\ hist'[k].late = 0]_vars

\* a third read found the entry an earlier read stored for its key
C1_Witness ==
    /\ budget = 0
    /\ last.read /\ last.hit
    /\ hist[last.key].stores = 1
    /\ last.fc.b = "v1"

C3_EntriesKept == [][\A k \in DOMAIN cache : k \in DOMAIN cache' /\ cache'[k] = cache[k]]_vars

\* a read stored an entry while the cache held an entry for another key
C3_Witness == lastFetched /\ \E k \in DOMAIN cache : k # last.key

\* C4: a read that finds its key in the cache changes neither the cache, the
\* Reader registry, the provider mux nor the declared media type and backend
\* handle of any Source, and opens no provider and calls no Reader.
C4_HitHasNoEffect ==
    [][(last'.read /\ last'.hit) =>
            /\ cache' = cache
            /\ sourceReaders' = sourceReaders
            /\ FSMux' = FSMux
            /\ \A a \in DOMAIN Sources :
                  /\ a \in DOMAIN Sources'
                  /\ Sources'[a].mediaType = Sources[a].mediaType
                  /\ Sources'[a].asmpg = Sources[a].asmpg
            /\ ~last'.prov.opened /\ ~last'.rdr /\ ~last'.req.sent]_vars

\* a read of f was answered from the cache while no Reader was ever registered
C4_Witness == last.read /\ last.hit /\ last.alias = <<"f">> /\ sourceReaders.isNil

\* the registered type of an extension, without its parameters
ExtSignal(ext) ==
    IF ext = <<".", "csv">> THEN <<"text", "/", "csv">>
    ELSE IF ext = <<".", "yaml">> THEN <<"application", "/", "yaml">>
    ELSE NoType

\* the first non-empty of the five signals of a mimeType probe
FirstSignal ==
    OrElse(probe.argType, OrElse(probe.baseType, OrElse(probe.declared,
        OrElse(ExtSignal(probe.argExt), ExtSignal(probe.baseExt)))))

\* C5: Source.mimeType returns the first non-empty of: the type parameter of
\* the argument, the type parameter of the base URL, the declared media type,
\* the registered type of the argument path's extension, that of the base
\* path's extension; and text/plain when all five are empty.
C5_FirstSignalWins ==
    (probe.fn = "mimeType" /\ probe.applied) =>
        /\ FirstSignal = NoType => probe.out = MediaType(<<"text", "/", "plain">>)
        /\ FirstSignal \notin {NoType, badType} => probe.out = MediaType(FirstSignal)

\* the base's type parameter won over a declared type and both extensions
C5_Witness ==
    /\ probe.fn = "mimeType" /\ probe.applied
    /\ probe.argType = NoType /\ probe.baseType = jsonArrayMimetype
    /\ probe.declared = tomlMimetype
    /\ probe.argExt = <<".", "csv">> /\ probe.baseExt = <<".", "yaml">>
    /\ probe.out = MediaType(jsonArrayMimetype)

\* C6: a non-empty candidate that is no media type makes Source.mimeType fail;
\* text/plain is the result only when no signal is present or the selected
\* signal is text/plain itself.
C6_MalformedCandidateFails ==
    (probe.fn = "mimeType" /\ probe.applied) =>
        /\ FirstSignal = badType => ~probe.out.ok
        /\ probe.out = MediaType(textMimetype) => FirstSignal \in {NoType, textMimetype}

\* a malformed declared type failed although the base path has a registered extension
C6_Witness ==
    /\ probe.fn = "mimeType" /\ probe.applied
    /\ probe.argType = NoType /\ probe.baseType = NoType
    /\ probe.declared = badType /\ probe.baseExt = <<".", "yaml">>
    /\ ~probe.out.ok

\* the values a query written from pairs has: key -> the values in order
PairKeys(pairs) == {<<pairs[i][1]>> : i \in 1..Len(pairs)}

PairValue(pairs, k) ==
    <<pairs[CHOOSE i \in 1..Len(pairs) : <<pairs[i][1]>> = k][2]>>

\* C7: when base has no query the resolved query is rel's query as written;
\* when base has one, the resolved query has the keys of both, a key of rel
\* with rel's value and a key only in base with base's value; and
\* http://x/a/b/?n=2 with bar.json?q=1 resolves to http://x/a/b/bar.json?n=2&q=1.
C7_QueryMergeOverrides ==
    (probe.fn = "resolveURL" /\ probe.applied) =>
        /\ probe.out.ok
        /\ probe.baseQuery = NoQuery => probe.out.u.RawQuery = PairsText(probe.relQuery)
        /\ probe.baseQuery # NoQuery =>
              /\ DOMAIN Query(probe.out.u) = PairKeys(probe.baseQuery) \cup PairKeys(probe.relQuery)
              /\ \A k \in PairKeys(probe.relQuery) :
                    Query(probe.out.u)[k] = <<PairValue(probe.relQuery, k)>>
              /\ \A k \in PairKeys(probe.baseQuery) \ PairKeys(probe.relQuery) :
                    Query(probe.out.u)[k] = <<PairValue(probe.baseQuery, k)>>
        /\ (/\ probe.basePath = <<"/", "a", "/", "b", "/">>
            /\ probe.baseQuery = <<Pair("n", "2")>>
            /\ probe.relRef = <<"bar", ".", "json">>
            /\ probe.relQuery = <<Pair("q", "1")>>) =>
              probe.out.u = URL(<<"http">>, <<>>, <<"x">>,
                                <<"/", "a", "/", "b", "/", "bar", ".", "json">>,
                                <<"n", "=", "2", "&", "q", "=", "1">>)

\* rel's n=3 replaced base's n=2, base's q=7 was kept
C7_Witness ==
    /\ probe.fn = "resolveURL" /\ probe.applied
    /\ probe.baseQuery = <<Pair("q", "7"), Pair("n", "2")>>
    /\ probe.relQuery = <<Pair("n", "3")>>
    /\ probe.relRef = <<"bar", ".", "json">>
    /\ probe.out.u.RawQuery = <<"n", "=", "3", "&", "q", "=", "7">>

\* C8 as stated: a read that succeeds and whose resolved reference has a
\* non-empty type parameter, the argument's or else the base's, stores an
\* entry of that type whatever the provider, directory detection, the Reader,
\* the declared type or the extension say.
C8_TypeParameterOverridesAll == (lastFetched /\ typeResolved # <<>>) => lastType = typeResolved

\* C8: a read that succeeds and whose resolved reference has a non-empty type
\* parameter stores an entry of that type, whatever the provider's hint, the
\* Reader, the declared type or the extension say, unless a provider found a
\* directory: then the type is the array-of-JSON type.
C8_TypeParameterOverridesButDirectory ==
    (lastFetched /\ typeResolved # <<>>) =>
        lastType = IF last.prov.dir THEN jsonArrayMimetype ELSE typeResolved

\* the argument's type parameter won over the type the aws+smp Reader fixed
C8_Witness ==
    /\ lastFetched
    /\ last.alias = <<"p">> /\ last.args = <<typeJSON>>
    /\ Sources[<<"p">>].mediaType = jsonArrayMimetype
    /\ lastType = jsonMimetype

\* C9 as stated: a successful read of an aws+smp source stores the
\* array-of-JSON type when the path it asked for ends with "/" and the JSON
\* type otherwise, whatever type parameter the base or the argument has.
C9_ReaderTypeRegardless ==
    (lastFetched /\ lastReadSMP) =>
        lastType = IF HasSuffix(last.req.path, <<"/">>) THEN jsonArrayMimetype ELSE jsonMimetype

\* C9: a successful read of an aws+smp source given no type parameter, on
\* the argument or on the base, stores the array-of-JSON type when the path it
\* asked for ends with "/" and the JSON type otherwise.
C9_ReaderTypeWithoutTypeParameter ==
    (lastFetched /\ lastReadSMP /\ typeGiven = <<>>) =>
        lastType = IF HasSuffix(last.req.path, <<"/">>) THEN jsonArrayMimetype ELSE jsonMimetype

\* /p/b was read as one parameter and stored as JSON
C9_Witness ==
    /\ lastFetched /\ lastReadSMP
    /\ last.args = <<<<"b">>>>
    /\ last.req = Request(FALSE, <<"/", "p", "/", "b">>)
    /\ lastType = jsonMimetype

\* C10: the aws+smp Reader called with more than one argument fails with an
\* error that carries the limit 2 and the number of arguments it was given,
\* sends no request to its backend, and the cache holds nothing for the key.
C10_SecondArgumentRejected ==
    (lastReadSMP /\ Len(last.args) > 1) =>
        /\ ~last.ok
        /\ last.err = [kind |-> "tooManyArgs", max |-> 2, found |-> Len(last.args)]
        /\ ~last.req.sent
        /\ last.key \notin DOMAIN cache

\* three arguments were rejected with the count 3
C10_Witness ==
    /\ lastReadSMP
    /\ Len(last.args) = 3
    /\ last.err.kind = "tooManyArgs" /\ last.err.found = 3
    /\ Sources[last.alias].asmpg.made

\* the last operation is one of the two top-level reads
lastTopRead == last.op \in {"Datasource", "Include"}

\* C11: when readDataSource fails, for an undefined alias, a scheme without
\* Reader, a failure of the provider or of the Reader, or an invalid media
\* type, Include like Datasource returns an error and does not crash.
C11_FailuresSurfaced ==
    (lastTopRead /\ last.err \notin {NoErr, Err("panic")}) => (~last.panic /\ ~last.ret.ok)

\* the reference an alias is when it parses as an absolute one
aliasRef(alias) == UrlParse(alias).ok /\ IsAbs(U(alias))

\* C12: a top-level read by an alias that is not registered registers a Source
\* with that alias and the alias as its URL when the alias is an absolute
\* reference, and fails as undefined and leaves Sources as it was when it is
\* not, also on a Data made without Sources; a registered Source is kept.
C12_UnregisteredAliasRead ==
    [][/\ (lastTopRead' /\ last'.alias \notin DOMAIN Sources) =>
            IF aliasRef(last'.alias)
            THEN /\ last'.alias \in DOMAIN Sources'
                 /\ Sources'[last'.alias].Alias = last'.alias
                 /\ Sources'[last'.alias].URL = U(last'.alias)
            ELSE last'.err = Err("undefined") /\ Sources' = Sources
       /\ (lastTopRead' /\ last'.alias \in DOMAIN Sources) =>
            /\ last'.alias \in DOMAIN Sources'
            /\ Sources'[last'.alias].URL = Sources[last'.alias].URL]_vars

\* the scheme of the reference the last read resolved
schemeResolved == resolveURL(Sources[last.alias].URL, arg0(last.args)).u.Scheme

\* C13: a read whose resolved reference has a scheme that no provider of the
\* mux resolves and no Reader is registered for fails with the error of
\* lookupReader naming that scheme, calls no Reader and stores nothing.
C13_UnregisteredSchemeFails ==
    (/\ last.read /\ ~last.hit /\ last.err.kind # "resolve"
     /\ schemeResolved \notin FSMux.schemes \cup RegisteredReaders) =>
        /\ ~last.ok
        /\ last.err = [kind |-> "lookupReader", scheme |-> schemeResolved]
        /\ ~last.rdr /\ ~last.req.sent /\ ~last.prov.opened
        /\ last.key \notin DOMAIN cache

\* bogus://h/k, read by its reference, failed naming the scheme bogus
C13_Witness ==
    /\ last.read /\ last.alias = xRef
    /\ last.err = [kind |-> "lookupReader", scheme |-> <<"bogus">>]
    /\ ~sourceReaders.isNil

\* C14: DefineDatasource with an empty alias returns an error and leaves
\* Sources as it was; with a registered alias it returns no error and leaves
\* Sources as it was; it never changes or removes a registered Source, and it
\* adds a Source, one, under its alias, only when the alias is new and not
\* empty and the value parses.
C14_DefinitionsKept ==
    [][last'.op = "DefineDatasource" =>
          /\ last'.alias = <<>> => (~last'.ret.ok /\ Sources' = Sources)
          /\ last'.alias \in DOMAIN Sources => (last'.ret.ok /\ Sources' = Sources)
          /\ \A a \in DOMAIN Sources : a \in DOMAIN Sources' /\ Sources'[a] = Sources[a]
          /\ DOMAIN Sources' \subseteq DOMAIN Sources \cup {last'.alias}
          /\ (last'.alias \notin DOMAIN Sources /\ last'.alias # <<>>) =>
                /\ last'.ret.ok <=> last'.alias \in DOMAIN Sources'
                /\ last'.ret.ok => Sources'[last'.alias].Alias = last'.alias]_vars

\* f, registered from the start, was defined again: no error, and f is as it was
C14_Witness ==
    /\ last.op = "DefineDatasource" /\ last.alias = <<"f">>
    /\ last.ret.ok
    /\ Sources[<<"f">>] = Sources0[<<"f">>]

\* C15: DatasourceReachable returns false for an alias that is not registered,
\* reads nothing and registers nothing for it; for a registered alias it reads
\* the source and returns true exactly when the read succeeded, that is when
\* the cache holds the read's key afterwards.
C15_ReachableReadsRegistered ==
    [][last'.op = "DatasourceReachable" =>
          /\ last'.alias \notin DOMAIN Sources =>
                (~last'.ret.ok /\ ~last'.read /\ Sources' = Sources /\ cache' = cache)
          /\ last'.alias \in DOMAIN Sources =>
                /\ last'.read
                /\ last'.ret.ok <=> last'.ok
                /\ last'.ret.ok <=> last'.key \in DOMAIN cache']_vars

\* bogus://h/k, an absolute reference, was found unreachable and not registered
C15_Witness ==
    /\ last.op = "DatasourceReachable" /\ last.alias = xRef
    /\ ~last.ret.ok
    /\ ~nilSources /\ xRef \notin DOMAIN Sources

\* parseData was applied to the probe
parsed == probe.fn = "parseData" /\ probe.applied

\* the parser a content type is handed to, for the types with one parser
OwnParser(type) ==
    CASE type = jsonArrayMimetype -> "JSONArray"
      [] type = csvMimetype -> "CSV"
      [] type = tomlMimetype -> "TOML"
      [] type = envMimetype -> "dotEnv"

\* C16: parseData returns the input string itself for plain text, also under
\* its legacy spelling; hands each structured type to its own parser, JSON
\* and YAML (also under its legacy spelling) to the object parser first; and
\* fails for any other type with an error naming it, calling no parser.
C16_DecoderDispatch ==
    parsed =>
        /\ probe.type \in {textMimetype, <<"application", "/", "text">>} =>
              probe.out = Value(<<>>, probe.s)
        /\ probe.type \in {jsonArrayMimetype, csvMimetype, tomlMimetype, envMimetype} =>
              /\ probe.out.decoders = <<OwnParser(probe.type)>>
              /\ probe.out.ok <=> OwnParser(probe.type) \notin probe.fail
              /\ probe.out.ok => probe.out.s = probe.s
        /\ probe.type = jsonMimetype => Head(probe.out.decoders) = "JSON"
        /\ probe.type \in {yamlMimetype, <<"application", "/", "x-yaml">>} =>
              Head(probe.out.decoders) = "YAML"
        /\ probe.type \in {<<"image", "/", "png">>, <<>>} =>
              /\ ~probe.out.ok
              /\ probe.out.decoders = <<>>
              /\ probe.out.err = [kind |-> "unsupported", type |-> probe.type]

\* image/png was refused although no parser would have failed
C16_Witness ==
    /\ parsed /\ probe.type = <<"image", "/", "png">> /\ probe.fail = {}
    /\ probe.out.err.kind = "unsupported"

\* the object parser and the sequence parser of the JSON or YAML type
ObjectParser(type) == IF type = jsonMimetype THEN "JSON" ELSE "YAML"

SequenceParser(type) == IF type = jsonMimetype THEN "JSONArray" ELSE "YAMLArray"

\* C17: for the JSON type and for the YAML type the object parser is tried
\* first and the sequence parser only if it failed: the result is the object
\* parser's when it succeeds, the sequence parser's when only that succeeds,
\* and the sequence parser's error when both fail.
C17_ObjectThenSequence ==
    (parsed /\ probe.type \in {jsonMimetype, yamlMimetype}) =>
        IF ObjectParser(probe.type) \notin probe.fail
        THEN probe.out = Value(<<ObjectParser(probe.type)>>, probe.s)
        ELSE IF SequenceParser(probe.type) \notin probe.fail
        THEN probe.out = Value(<<ObjectParser(probe.type), SequenceParser(probe.type)>>, probe.s)
        ELSE /\ ~probe.out.ok
             /\ probe.out.decoders = <<ObjectParser(probe.type), SequenceParser(probe.type)>>
             /\ probe.out.err = [kind |-> "parse", parser |-> SequenceParser(probe.type)]

\* JSON and JSONArray both failed, and the error is JSONArray's
C17_Witness ==
    /\ parsed /\ probe.type = jsonMimetype
    /\ {"JSON", "JSONArray"} \subseteq probe.fail
    /\ probe.out.err = [kind |-> "parse", parser |-> "JSONArray"]

\* C18: mimeAlias applied twice gives what it gives applied once; it maps
\* application/x-yaml to application/yaml and application/text to text/plain,
\* and returns every other input as it is.
C18_AliasIdempotent ==
    parsed =>
        /\ probe.again = probe.alias
        /\ probe.type = <<"application", "/", "x-yaml">> => probe.alias = yamlMimetype
        /\ probe.type = <<"application", "/", "text">> => probe.alias = textMimetype
        /\ probe.type \notin {<<"application", "/", "x-yaml">>, <<"application", "/", "text">>} =>
              probe.alias = probe.type

\* application/x-yaml became application/yaml, and stayed that on the second call
C18_Witness ==
    /\ parsed /\ probe.type = <<"application", "/", "x-yaml">>
    /\ probe.alias = yamlMimetype /\ probe.again = yamlMimetype

\* splitFSMuxURL was applied to the probe
split == probe.fn = "splitFSMuxURL" /\ probe.applied

\* a path with one leading separator stripped
Stripped(path) == IF path # <<>> /\ Head(path) = "/" THEN Tail(path) ELSE path

resolved == probe.fn = "resolveURL" /\ probe.applied

\* the Reader's merged parameters are the values of the resolved query
SameParameters ==
    /\ DOMAIN probe.args.params = DOMAIN Query(probe.out.u)
    /\ \A k \in DOMAIN probe.args.params : Query(probe.out.u)[k] = <<probe.args.params[k]>>

\* a specifier path that ends in a "." or ".." segment
EndsInDots(r) ==
    \/ r \in {<<".">>, <<".", ".">>}
    \/ HasSuffix(r, <<"/", ".">>)
    \/ HasSuffix(r, <<"/", ".", ".">>)

\* a specifier that is a relative path: no scheme, no leading separator
RelativePath(r) == r # <<>> /\ Head(r) # "/" /\ ~Contains(r, ":")

RECURSIVE ValuesOf(_, _)
ValuesOf(pairs, k) ==
    IF pairs = <<>> THEN <<>>
    ELSE (IF <<pairs[1][1]>> = k THEN <<<<pairs[1][2]>>>> ELSE <<>>) \o ValuesOf(Tail(pairs), k)

\* the keys that appear more than once in a query as written
RepeatedKeys(pairs) == {k \in PairKeys(pairs) : Len(ValuesOf(pairs, k)) > 1}

\* the values of a key joined with a single space
SpaceJoined(pairs, k) == Join(ValuesOf(pairs, k), " ")

\* C21 as stated: for a key repeated within the specifier, and for a key
\* repeated within the base that the specifier does not have, the query of
\* resolveURL(base, rel) carries the repeated values joined with a single space.
C21_ResolverJoinsRepeated ==
    resolved =>
        /\ probe.out.ok
        /\ \A k \in RepeatedKeys(probe.relQuery) :
              Query(probe.out.u)[k] = <<SpaceJoined(probe.relQuery, k)>>
        /\ \A k \in RepeatedKeys(probe.baseQuery) \ PairKeys(probe.relQuery) :
              Query(probe.out.u)[k] = <<SpaceJoined(probe.baseQuery, k)>>

\* C21: the Reader's argument merge joins repeated values with a single
\* space, the specifier's when it has the key and the base's otherwise; the
\* Reference Resolver does not: without a base query the resolved query is
\* the specifier's as written, with one a key of the specifier carries the
\* specifier's first value only and a key of the base alone keeps all the
\* base's values, unjoined; either result depends on the values per key only,
\* not on the order of the keys.
C21_ReaderJoinsResolverKeepsFirst ==
    resolved =>
        /\ probe.out.ok /\ probe.args.ok
        /\ DOMAIN probe.args.params = PairKeys(probe.baseQuery) \cup PairKeys(probe.relQuery)
        /\ \A k \in PairKeys(probe.relQuery) :
              probe.args.params[k] = SpaceJoined(probe.relQuery, k)
        /\ \A k \in PairKeys(probe.baseQuery) \ PairKeys(probe.relQuery) :
              probe.args.params[k] = SpaceJoined(probe.baseQuery, k)
        /\ probe.baseQuery = NoQuery => probe.out.u.RawQuery = PairsText(probe.relQuery)
        /\ probe.baseQuery # NoQuery =>
              /\ DOMAIN Query(probe.out.u) = PairKeys(probe.baseQuery) \cup PairKeys(probe.relQuery)
              /\ \A k \in PairKeys(probe.relQuery) :
                    Query(probe.out.u)[k] = <<ValuesOf(probe.relQuery, k)[1]>>
              /\ \A k \in PairKeys(probe.baseQuery) \ PairKeys(probe.relQuery) :
                    Query(probe.out.u)[k] = ValuesOf(probe.baseQuery, k)

\* base ?q=7&n=2&n=4 with ?q=1&q=5: the resolver gives n=2&n=4&q=1, the
\* Reader n = "2 4" and q = "1 5"
C21_Witness ==
    /\ resolved
    /\ probe.baseQuery = <<Pair("q", "7"), Pair("n", "2"), Pair("n", "4")>>
    /\ probe.relQuery = <<Pair("q", "1"), Pair("q", "5")>>
    /\ probe.out.u.RawQuery = <<"n", "=", "2", "&", "n", "=", "4", "&", "q", "=", "1">>
    /\ probe.args.params[<<"n">>] = <<"2", " ", "4">>
    /\ probe.args.params[<<"q">>] = <<"1", " ", "5">>

\* ------------------------------------------------------------------ C22

\* C22: no step replaces or resets a handle that is made: a Source whose
\* handle is made has the same handle after every operation, inherit included,
\* so the handle is created at most once.
C22_HandleNeverReplaced ==
    [][\A a \in DOMAIN Sources :
          (a \in DOMAIN Sources' /\ Sources[a].asmpg.made) =>
              Sources'[a].asmpg = Sources[a].asmpg]_vars

\* ------------------------------------------------------------------ C23

\* the tasks whose fetch for the key is in flight: they missed the cache and
\* their provider or Reader call has not returned
InFlight(k) == {t \in Tasks : tasks[t].pc = "fetch" /\ tasks[t].key = k}

\* the tasks that invoked the provider or Reader for the key
Fetchers(k) == {t \in Tasks : tasks[t].fetched /\ tasks[t].key = k}

TaskKeys == {tasks[t].key : t \in {u \in Tasks : tasks[u].pc # "idle"}}

\* C23 as stated: at any time at most one fetch per key is in flight, and the
\* provider or Reader is invoked at most once per key.
C23_OneFetchPerKey ==
    \A k \in TaskKeys : Cardinality(InFlight(k)) <= 1 /\ Cardinality(Fetchers(k)) <= 1

\* C23: a task that calls readSource after another task's read of the same
\* key has returned with its entry stored finds the key, invokes neither
\* provider nor Reader and returns an entry another task fetched for that key
\* (of two tasks, the first caller's result).
C23_ReadAfterStoreShares ==
    \A t \in Tasks : \A u \in tasks[t].after :
        (tasks[t].pc = "done" /\ tasks[u].stored /\ tasks[u].key = tasks[t].key) =>
            /\ tasks[t].hit /\ tasks[t].ok /\ ~tasks[t].fetched
            /\ \E w \in Tasks \ {t} :
                  /\ tasks[w].key = tasks[t].key /\ tasks[w].fetched /\ tasks[w].ok
                  /\ tasks[w].fc = tasks[t].fc

\* task 2 read f after task 1 had stored its entry and got that entry
C23_Witness ==
    /\ tasks[2].pc = "done" /\ tasks[2].hit /\ 1 \in tasks[2].after
    /\ tasks[1].stored /\ tasks[1].key = tasks[2].key /\ tasks[2].alias = <<"f">>
    /\ tasks[2].fc = tasks[1].fc

\* ------------------------------------------------------------------ C24

\* C24: a read that is answered from the cache with the entry the read before
\* it fetched and stored asks for the same alias with the same arguments.
C24_KeysSeparateRequests ==
    [][(/\ last.read /\ last.ok /\ ~last.hit
        /\ last'.read /\ last'.hit /\ last'.key = last.key) =>
            (last'.alias = last.alias /\ last'.args = last.args)]_vars

\* ------------------------------------------------------------------ C25

\* what Source.mimeType gives for the last read's first argument on the Source
\* as the read left it
lastMimeType ==
    mimeType(Sources[last.alias].URL, Sources[last.alias].mediaType, arg0(last.args))

\* C25: the entry a successful read through a Reader stores has the content
\* type Source.mimeType returns for the same argument, base reference and
\* declared media type, also when a type parameter is present; a type
\* parameter mimeType rejects is never stored.
C25_ReaderStoresResolvedType ==
    (lastFetched /\ last.rdr) => (lastMimeType.ok /\ lastType = lastMimeType.t)

\* ------------------------------------------------------------------ C26

\* C26: for every base URL, name and declared media type, guessMimeType
\* returns the media type Source.mimeType returns on a Source with that URL
\* and declared type, and fails exactly when it fails.
C26_GuessAsMimeType ==
    (probe.fn = "guessMimeType" /\ probe.applied) =>
        /\ probe.guess.ok = probe.out.ok
        /\ probe.guess.t = probe.out.t

\* //q.csv on http://x/u.yaml with application/toml declared: both give
\* application/toml, the declared type before either extension
C26_Witness ==
    /\ probe.fn = "guessMimeType" /\ probe.applied
    /\ probe.name = <<"/", "/", "q", ".", "csv">>
    /\ probe.base = BaseOf(<<".", "yaml">>, NoType)
    /\ probe.declared = tomlMimetype
    /\ probe.guess = MediaType(tomlMimetype)
    /\ probe.out = MediaType(tomlMimetype)

====
